---- MODULE Spec2Model ----
(***************************************************************************)
(* Model of autoscan's Processor and its durable scan store                *)
(* (processor/processor.go, processor/datastore.go).                       *)
(*                                                                         *)
(* The scan table is a set of rows; the read-write handle is one           *)
(* connection (internal/sqlite/db.go), so a transaction of Upsert and the  *)
(* DELETE of Process exclude each other; readers use the read-only handle  *)
(* and see committed rows only.  Process and Add are modelled step by step *)
(* so that calls of several goroutines interleave.                         *)
(***************************************************************************)
EXTENDS Integers, Sequences, FiniteSets

\* ------------------------------------------------------------------ bounds
MaxPriority == 1    \* priorities are 0..MaxPriority
MaxTime     == 1    \* scan times (Unix seconds) are 0..MaxTime
MaxNow      == 5    \* the clock runs over 0..MaxNow ticks
MinimumAge  == 1    \* the configured minimum age, in ticks
MaxRetried  == 2    \* the scan loop is followed while retried stays within this
MaxReceived == 2    \* Add is called while received stays within this
TicksPerSec == 2    \* clock resolution: ticks per second
QueueDelay  == 2    \* the inotify queue's delay, in periods of its ticker
syncLimit   == 1    \* the weight of the account's sync semaphore
maxSyncRetries == 2 \* the failed runs after which a sync job is stopped
MaxRenamed == 2     \* renamed files in the payload of a Rename event
MaxVersion == 2     \* migration versions are 1..MaxVersion
MaxFiles == 2       \* migration files in a component's directory
MaxPathLen == 3     \* the folder names kept of a path under construction
MaxChanged == 3     \* entries of a Changed list of a diff
MaxScans == 1       \* scans a partial sync hands to the processor callback
MaxCallers == 2     \* goroutines that call getRateLimiter
MaxCount == 2       \* additions to one statistics counter

\* ------------------------------------------------------------- value sets
Folders    == {"f1", "f2"}
RelPaths   == {"", "a"}
Priorities == 0..MaxPriority
Times      == 0..MaxTime
Targets    == {"t1", "t2"}
Procs      == {1, 2}       \* goroutines calling Processor.Process
Adders     == {11}         \* goroutines calling Processor.Add
Anchors    == {"m1", "m2"} \* paths that may be configured as anchors
Drives     == 1..(syncLimit + 1) \* the drives synced with one account:
                           \* one more than the semaphore admits at once
QPaths     == {"/m/x", "/m/x/", "/m/y"} \* paths handed to the inotify queue:
                           \* two spellings of one folder and another folder

Scans == [folder : Folders, relative_path : RelPaths, priority : Priorities, time : Times]

NoScan == [folder |-> "", relative_path |-> "", priority |-> 0, time |-> 0]

\* lastJob when the last step neither skipped a tick nor returned
NoJob == [op |-> "none", drive |-> 0, warned |-> FALSE, err |-> "nil"]

\* in place of a firing or event time: no entry, no event
NoTime == 0 - 1

\* what the HTTP client gives apiClient.do: an error (a transport failure or
\* the client's timeout) and no response, or a response with a status code
StatusCodes == 100..599
Responses ==
    [err : {TRUE}, StatusCode : {0}] \cup [err : {FALSE}, StatusCode : StatusCodes]
NoResponse == [err |-> FALSE, StatusCode |-> 0]

\* Paths of the Sonarr payloads are sequences of pieces of text, "/" being
\* the separator; the text is the concatenation of the pieces, so that
\* <<"/", "TV", "W">> is the directory /TVW.  <<>> is the empty string.
SeriesW == <<"/", "TV", "/", "W">>
SeriesTVW == <<"/", "TV", "W">>
SeriesPaths == {<<>>, SeriesW, SeriesTVW}
RelFiles == {<<"S1", "/", "e1">>, <<"S2", "/", "e2">>}
PrevFiles == {SeriesW \o <<"/", "S1", "/", "e1">>,
              SeriesTVW \o <<"/", "S1", "/", "e1">>,
              SeriesW \o <<"/", "S2", "/", "e2">>}
RenamedFile == [PreviousPath : PrevFiles, RelativePath : RelFiles]
EventTypes == {"Test", "Download", "EpisodeFileDelete", "SeriesDelete",
               "Rename", "Grab"}
\* the payloads: a Rename event lists renamed files and has no episode
\* file, the other events list none (the handler reads neither field then)
Events ==
    [Type : {"Rename"}, File : {<<>>}, Series : SeriesPaths,
     RenamedFiles : UNION {[1..n -> RenamedFile] : n \in 0..MaxRenamed}]
    \cup [Type : EventTypes \ {"Rename"}, File : RelFiles \cup {<<>>},
          Series : SeriesPaths, RenamedFiles : {<<>>}]
NoEvent == [Type |-> "", File |-> <<>>, Series |-> <<>>, RenamedFiles |-> <<>>]
NoScans == [called |-> FALSE, scans |-> <<>>]

\* the entries of a Changed list: the old and new state of a file or
\* folder, of which the id and the trashed flag are kept; the entry at
\* place k of a list handed to reclassifyTrashed has id k
Changes(n) ==
    {c \in [1..n -> [id : 1..n, old : BOOLEAN, new : BOOLEAN]] :
        \A k \in 1..n : c[k].id = k}
ChangedLists == UNION {Changes(n) : n \in 0..MaxChanged}
\* the Added and Removed lists as the sync left them: empty, or with the
\* new state of an item (id 0) that is not in Changed
AddedLists == {<<>>, <<[id |-> 0, trashed |-> FALSE]>>}
RemovedLists == {<<>>, <<[id |-> 0, trashed |-> TRUE]>>}
NoDiff == [Changed |-> <<>>, Added |-> <<>>, Removed |-> <<>>]

NoRun == [kind |-> "none", drive |-> 0, err |-> "nil", emitted |-> 0]

\* the events of the watcher: Op is a set of kinds (a bit mask), Name the
\* path; stat is what os.Stat gives for the name and allowed what the
\* filter of the configured path says of it.  /m is the configured path.
OpKinds == {"Create", "Write", "Remove", "Rename", "Chmod"}
EventNames == {"/m/x", "/m/x/f.mkv", "/n/y"}
FsEvents ==
    [Op : {o \in SUBSET OpKinds : Cardinality(o) \in {1, 2}},
     Name : EventNames, stat : {"err", "dir", "file"}, allowed : BOOLEAN]
NoFsEvent == [Op |-> {}, Name |-> "", stat |-> "err", allowed |-> FALSE]
NoPath == "none"

\* the accounts of the drives, and the goroutines that ask for a limiter
Accounts == {"acc1", "acc2"}
Callers == 1..MaxCallers
NoLimiter == 0

\* the fields of Stats, in the order Snapshot loads them
Counters == <<"Received", "Processed", "Retried">>
ZeroStats == [Received |-> 0, Processed |-> 0, Retried |-> 0]
NoCaller == [pc |-> "idle", account |-> "", limiter |-> NoLimiter]

\* the folders of a drive: their ids (a folder's name is its id here), the
\* id of the drive, and the values of Folder.Parent
FolderIDs == {"a", "b"}
driveID == "drv"
Absent == "absent"
ParentIDs == FolderIDs \cup {"", driveID}
NoWalk == [pc |-> "idle", folderID |-> "", nextFolderID |-> "", fpath |-> <<>>,
           odd |-> FALSE, err |-> "nil"]

\* the components that keep migrations, and the lists of the versions of
\* the files of a migration directory
Components == {"processor", "bernard"}
Versions == 1..MaxVersion
FileLists == UNION {[1..n -> Versions] : n \in 0..MaxFiles}
NoMigrate ==
    [pc |-> "idle", component |-> "", migrations |-> <<>>, versions |-> {},
     i |-> 0, err |-> "nil"]

VARIABLES
    store,       \* rows of table scan, as committed
    rwConn,      \* holder of the single read-write connection, 0 when free
    now,         \* the clock, in ticks
    minimumAge,  \* Processor.minimumAge, in ticks
    received,    \* stats.Received
    processed,   \* stats.Processed
    processMu,   \* Processor.processMu: the holder, 0 when unlocked
    pc,          \* position of each Process call
    scan,        \* the scan fetched by each Process call, until it returns
    perr,        \* the error each Process call returns
    gerr,        \* the first error of a target, kept by the errgroup of callTargets
    apc,         \* position of each Add call
    remaining,   \* the scans of the slice each Add call has yet to upsert
    txRows,      \* rows as seen inside the open transaction
    aerr,        \* the error each Add call returns
    txBase,      \* history: the committed rows when the transaction began
    txHist,      \* history: hist as the open transaction will leave it
    merged,      \* history: what the last execUpsert of the transaction did
    hist,        \* history: per folder, the inputs merged into its row
    dirty,       \* history: an Add changed the folder of an in-flight Process
    dsCall,      \* the last call of the datastore made by a single caller
    scanOrder,   \* the order in which the table's rows are visited by a query
    anchors,     \* Processor.anchors, the configured anchor paths
    exists,      \* the file system: whether os.Stat of a path succeeds
    anchorState, \* Processor.anchorState: per anchor "untracked", "up" or "down"
    anchorRet,   \* the last CheckAnchors call: its result and what it logged
    targets,     \* the targets handed to runScanLoop
    lpc,         \* position of runScanLoop
    targetsAvailable, \* runScanLoop's flag of that name
    lerr,        \* the err runScanLoop switched on last
    retried,     \* stats.Retried
    availOk,     \* history: CheckAvailability succeeded, and no Process call
                 \* returned TargetUnavailable since
    qScans,      \* queue.scans of the inotify trigger: per path its firing
                 \* time, NoTime for a path without entry
    ready,       \* the ready scans of the last queue.process call, with the
                 \* line logged for each
    firstEvent,  \* history: per path, the time of the oldest event that no
                 \* notification has covered yet
    lastEvent,   \* history: per path, the time of the latest such event
    inputs,      \* queue.inputs: "open" or "closed"
    qpc,         \* position of queue.worker: "select" or "returned"
    closedAt,    \* history: the time at which inputs was closed
    registered,  \* per drive: its sync job is an entry of the cron scheduler
    jpc,         \* per drive: position of the run of its sync job
    done,        \* per drive: the channel done of runSyncWithWatchdog,
                 \* "none" while it is empty
    attempts,    \* per drive: syncJob.attempts
    errors,      \* per drive: len(syncJob.errors)
    semHeld,     \* the weight acquired from the account's semaphore
    cbFailed,    \* history: per drive, the result in done is that of a
                 \* failed processor callback
    consec,      \* history: per drive, the non-fatal failed runs since the
                 \* last successful one
    instances,   \* history: per drive, the runs of its job in progress
    lastJob,     \* history: what the last step did if it skipped a tick or
                 \* returned from a job function, and the error returned
    \* the Plex target's API client
    plexRes,     \* what client.Do gave the last call of apiClient.do
    doRet,       \* what that call of apiClient.do returned
    \* the Sonarr webhook
    event,       \* the decoded payload of the last request
    callbackArgs,\* the scans its handler passed to the processor callback,
                 \* NoScans if it did not call it
    statusCode,  \* the status its handler wrote
    \* the migrator
    migFiles,    \* per component: the versions of the files of its embedded
                 \* directory, in the order ReadDir lists them
    migDb,       \* the database: the schema changes in effect, in the order
                 \* they took effect, and the rows of schema_migration
    mig,         \* the call of Migrate in progress or last returned
    \* the folder paths of a drive
    folderMap,   \* per folder id: the parent of its entry in the folder map
                 \* of the sync, Absent without entry
    bdsFolders,  \* per folder id: the parent of its row in the datastore,
                 \* Absent without row
    walk,        \* the call of getFolderPath in progress or last returned
    \* the post-processing of a diff
    diffIn,      \* history: the lists handed to the last reclassifyTrashed
    diff,        \* the lists changed, added and removed after it
    \* the full sync of a drive
    setupRes,    \* per drive: what setupDrive found, "new" before it ran
    fullSync,    \* per drive: the variable fullSync of the job's closure
    fspc,        \* per drive: the sync its job function is running
    lastRun,     \* history: the run of a job function that returned in the
                 \* last step, its error and the scans it emitted
    \* the rate limiters
    limiters,    \* the map limiters: per account its limiter, NoLimiter
                 \* without entry; a limiter is the number of its allocation
    limLock,     \* the goroutine that holds the mutex lock, 0 if none
    caller,      \* per goroutine: where its call of getRateLimiter is, for
                 \* which account, and the limiter it has in hand
    allocated,   \* the limiters newRateLimiter has made
    handedOut,   \* history: per account, the limiters returned for it
    \* the inotify daemon's worker
    fsEvent,     \* the last event received from the watcher, with what
                 \* os.Stat and the path's filter say of its name
    sent,        \* the path the worker sent to queue.inputs for it, NoPath
    \* the statistics counters
    stats,       \* the counters Received, Processed and Retried of Stats
    snapPc,      \* where the call of Snapshot is: the counter it loads
                 \* next, "idle" before the call, "returned" after it
    snap,        \* the Snapshot under construction, then returned
    instants,    \* history: the values the three counters held together
                 \* at the instants since Snapshot was called
                 \* if it sent none
    watchAdded   \* whether the worker put the event's name under watch

coreVars == <<store, rwConn, now, minimumAge, received, processed, processMu,
              pc, scan, perr, gerr, apc, remaining, txRows, aerr,
              txBase, txHist, merged, hist, dirty>>

dsVars == <<dsCall, scanOrder>>

anchorVars == <<anchors, exists, anchorState, anchorRet>>

loopVars == <<targets, lpc, targetsAvailable, lerr, retried, availOk>>

queueVars == <<qScans, ready, firstEvent, lastEvent, inputs, qpc, closedAt>>

syncVars == <<registered, jpc, done, attempts, errors, semHeld, cbFailed,
              consec, instances, lastJob>>

plexVars == <<plexRes, doRet>>

\* the state of the triggers other than inotify, and of the targets
hookVars == <<event, callbackArgs, statusCode>>

migrateVars == <<migFiles, migDb, mig>>

walkVars == <<folderMap, bdsFolders, walk>>

diffVars == <<diffIn, diff>>

\* the state of the remaining parts
fullVars == <<setupRes, fullSync, fspc, lastRun>>

limVars == <<limiters, limLock, caller, allocated, handedOut>>

watchVars == <<fsEvent, sent, watchAdded>>

statsVars == <<stats, snapPc, snap, instants>>

moreVars == <<diffVars, fullVars, limVars, watchVars, statsVars>>

otherVars == <<syncVars, plexVars, hookVars, migrateVars, walkVars, moreVars>>

\* everything but moreVars
earlierVars == <<coreVars, dsVars, anchorVars, loopVars, queueVars, syncVars,
                 plexVars, hookVars, migrateVars, walkVars>>

\* what no step of Add, Process or the datastore touches
outerVars == <<minimumAge, anchorVars, loopVars, queueVars, otherVars>>

\* what no step of Add or Process touches
apartVars == <<outerVars, dsVars>>

vars == <<coreVars, dsVars, anchorVars, loopVars, queueVars, otherVars>>

procVars  == <<processMu, pc, scan, perr, gerr>>
addVars   == <<apc, remaining, txRows, aerr, txBase, txHist, merged>>

Max(a, b) == IF a >= b THEN a ELSE b

\* the rows of a folder
RowsOf(rows, f) == {r \in rows : r.folder = f}

\* what an upsert of s does to rows: insert a new row, or meet the row of the
\* folder and raise (or equal) its priority, or keep its greater priority
MergeKind(rows, s) ==
    IF RowsOf(rows, s.folder) = {} THEN "insert"
    ELSE IF \E r \in RowsOf(rows, s.folder) : r.priority > s.priority
         THEN "keep"
         ELSE "raise"

NoHist == [seen |-> FALSE, maxPriority |-> 0, relative_path |-> "", time |-> 0]

\* ------------------------------------------------------------- the store

\* sqlUpsert: INSERT ... ON CONFLICT (folder) DO UPDATE SET ...
sqlUpsertOverwritePriority(rows, s) ==
    IF \E r \in rows : r.folder = s.folder
    THEN {IF r.folder = s.folder THEN s ELSE r : r \in rows}
    ELSE rows \cup {s}

sqlUpsertNoConflictClause(rows, s) == rows \cup {s}

sqlUpsert(rows, s) ==
    IF \E r \in rows : r.folder = s.folder
    THEN {IF r.folder = s.folder
          THEN [r EXCEPT !.priority = Max(s.priority, r.priority),
                         !.relative_path = s.relative_path,
                         !.time = s.time]
          ELSE r : r \in rows}
    ELSE rows \cup {s}

\* sqlDelete: DELETE FROM scan WHERE folder=?
sqlDelete(rows, folder) == {r \in rows : r.folder # folder}

\* cutoff := now().Add(-1 * minAge).Unix(): whole seconds, rounded down
CutoffSignError(n, minAge) == (n + minAge) \div TicksPerSec

Cutoff(n, minAge) == (n - minAge) \div TicksPerSec

\* WHERE time < ?
TimeFilterReversed(rows, cutoff) == {r \in rows : r.time > cutoff}

TimeFilterInclusive(rows, cutoff) == {r \in rows : r.time <= cutoff}

TimeFilter(rows, cutoff) == {r \in rows : r.time < cutoff}

\* ORDER BY priority DESC, time ASC: a sorts strictly before b
OrderedBeforePriorityAscending(a, b) ==
    \/ a.priority < b.priority
    \/ a.priority = b.priority /\ a.time < b.time

OrderedBefore(a, b) ==
    \/ a.priority > b.priority
    \/ a.priority = b.priority /\ a.time < b.time

\* LIMIT 1: the rows that may come first in the order
LimitAny(rows) == rows

LimitOne(rows) == {r \in rows : \A o \in rows : ~OrderedBefore(o, r)}

\* GetAvailableScan: the rows the query may return; empty means ErrNoScans
GetAvailableScan(rows, n, minAge) == LimitOne(TimeFilter(rows, Cutoff(n, minAge)))

\* the orders in which a query may visit the rows of the folders
FolderOrders ==
    {o \in [1..Cardinality(Folders) -> Folders] :
        \A i, j \in DOMAIN o : o[i] = o[j] => i = j}

\* position of a folder in an order
Pos(o, f) == CHOOSE i \in DOMAIN o : o[i] = f

\* the row a query returns among the rows that may come first: the one it
\* visits first
FirstVisited(rows, o) ==
    CHOOSE r \in rows : \A q \in rows : Pos(o, r.folder) <= Pos(o, q.folder)

\* no datastore call made yet
NoCall == [op |-> "none", seq |-> 0, folder |-> "", fault |-> FALSE,
           err |-> "nil", row |-> NoScan, again |-> FALSE]

\* ------------------------------------------------------------------ Init
\* the history of a table found at start: each row as its only input
HistOf(rows) ==
    [f \in Folders |->
        IF RowsOf(rows, f) = {} THEN NoHist
        ELSE LET r == CHOOSE r \in RowsOf(rows, f) : TRUE IN
             [seen |-> TRUE, maxPriority |-> r.priority,
              relative_path |-> r.relative_path, time |-> r.time]]

\* the state after processor.New on a database holding rows, the clock
\* reading n
InitWith(n, rows) ==
    /\ store = rows
    /\ rwConn = 0
    /\ now = n
    /\ minimumAge = MinimumAge
    /\ received = 0
    /\ processed = 0
    /\ processMu = 0
    /\ pc = [p \in Procs |-> "idle"]
    /\ scan = [p \in Procs |-> NoScan]
    /\ perr = [p \in Procs |-> "nil"]
    /\ gerr = [p \in Procs |-> "nil"]
    /\ apc = [a \in Adders |-> "idle"]
    /\ remaining = [a \in Adders |-> 0]
    /\ txRows = [a \in Adders |-> {}]
    /\ aerr = [a \in Adders |-> "nil"]
    /\ txBase = [a \in Adders |-> {}]
    /\ txHist = [a \in Adders |-> [f \in Folders |-> NoHist]]
    /\ merged = [a \in Adders |-> "none"]
    /\ hist = HistOf(rows)
    /\ dirty = [p \in Procs |-> FALSE]
    /\ dsCall = NoCall
    /\ scanOrder = CHOOSE o \in FolderOrders : TRUE

\* the state after processor.New on an empty database
InitAt(n) == InitWith(n, {})

\* processor.New with the anchors cfg: anchorState is an empty map; ex is
\* the file system at that time
AnchorsInit(cfg, ex) ==
    /\ anchors = cfg
    /\ exists = ex
    /\ anchorState = [a \in Anchors |-> "untracked"]
    /\ anchorRet = [seq |-> 0, ok |-> TRUE, log |-> {}]

\* no anchor configured
AnchorsNone == AnchorsInit({}, [a \in Anchors |-> TRUE])

\* runScanLoop entered with the targets ts
LoopInit(ts) ==
    /\ targets = ts
    /\ lpc = "top"
    /\ targetsAvailable = FALSE
    /\ lerr = "nil"
    /\ retried = 0
    /\ availOk = FALSE

\* newQueue: scans is an empty map
QueueInit ==
    /\ qScans = [p \in QPaths |-> NoTime]
    /\ ready = {}
    /\ firstEvent = [p \in QPaths |-> NoTime]
    /\ lastEvent = [p \in QPaths |-> NoTime]
    /\ inputs = "open"
    /\ qpc = "select"
    /\ closedAt = NoTime

\* startAutoSync: one job per drive added to the scheduler, no slot taken
SyncInit ==
    /\ registered = [d \in Drives |-> TRUE]
    /\ jpc = [d \in Drives |-> "idle"]
    /\ done = [d \in Drives |-> "none"]
    /\ attempts = [d \in Drives |-> 0]
    /\ errors = [d \in Drives |-> 0]
    /\ semHeld = 0
    /\ cbFailed = [d \in Drives |-> FALSE]
    /\ consec = [d \in Drives |-> 0]
    /\ instances = [d \in Drives |-> 0]
    /\ lastJob = NoJob

\* no request made yet
PlexInit ==
    /\ plexRes = NoResponse
    /\ doRet = "none"

\* no webhook request served yet
HookInit ==
    /\ event = NoEvent
    /\ callbackArgs = NoScans
    /\ statusCode = 0

\* New: the table schema_migration exists and is empty, nothing migrated
MigrateStart ==
    /\ migDb = [applied |-> <<>>, rows |-> {}]
    /\ mig = NoMigrate

\* no component has migration files
MigrateInit ==
    /\ migFiles = [c \in Components |-> <<>>]
    /\ MigrateStart

\* an empty folder map and an empty datastore, no path asked for
WalkInit ==
    /\ folderMap = [f \in FolderIDs |-> Absent]
    /\ bdsFolders = [f \in FolderIDs |-> Absent]
    /\ walk = NoWalk

\* no diff post-processed yet
DiffInit ==
    /\ diffIn = NoDiff
    /\ diff = NoDiff

\* no drive set up yet
FullInit ==
    /\ setupRes = [d \in Drives |-> "new"]
    /\ fullSync = [d \in Drives |-> FALSE]
    /\ fspc = [d \in Drives |-> "idle"]
    /\ lastRun = NoRun

\* the empty map, the mutex free, no call made
LimInit ==
    /\ limiters = [a \in Accounts |-> NoLimiter]
    /\ limLock = 0
    /\ caller = [g \in Callers |-> NoCaller]
    /\ allocated = 0
    /\ handedOut = [a \in Accounts |-> {}]

\* no event received yet
WatchInit ==
    /\ fsEvent = NoFsEvent
    /\ sent = NoPath
    /\ watchAdded = FALSE

\* New(): zero-valued counters, Snapshot not called
StatsInit ==
    /\ stats = ZeroStats
    /\ snapPc = "idle"
    /\ snap = ZeroStats
    /\ instants = {}

MoreInit == DiffInit /\ FullInit /\ LimInit /\ WatchInit /\ StatsInit

OtherInit ==
    SyncInit /\ PlexInit /\ HookInit /\ MigrateInit /\ WalkInit /\ MoreInit

Init == InitAt(0) /\ AnchorsNone /\ LoopInit(Targets) /\ QueueInit /\ OtherInit

\* ----------------------------------------------------------------- clock
Tick ==
    /\ now < MaxNow
    /\ now' = now + 1
    /\ UNCHANGED <<store, rwConn, apartVars, received, processed, procVars,
                   addVars, hist, dirty>>

\* -------------------------------------------------------- Processor.Add
\* The scans of the slice are drawn one by one as execUpsert runs: nothing
\* reads a scan of the slice before its execUpsert.

\* history of the merged inputs of a folder, advanced by one upserted scan
HistUpsert(h, s) ==
    [h EXCEPT ![s.folder] =
        [seen |-> TRUE,
         maxPriority |-> IF h[s.folder].seen /\ h[s.folder].maxPriority > s.priority
                         THEN h[s.folder].maxPriority ELSE s.priority,
         relative_path |-> s.relative_path,
         time |-> s.time]]

InFlight(p) == pc[p] \in {"dispatch", "delete", "count"}

\* Add: p.stats.Received.Add(int64(len(scans))), then Upsert
AddCallCountsNothing(a) ==
    /\ apc[a] = "idle"
    /\ \E n \in 0..(MaxReceived - received) :
          /\ received' = received
          /\ remaining' = [remaining EXCEPT ![a] = n]
    /\ apc' = [apc EXCEPT ![a] = "upsert"]
    /\ UNCHANGED <<store, rwConn, now, apartVars, processed, procVars,
                   txRows, aerr, txBase, txHist, merged, hist, dirty>>

AddCall(a) ==
    /\ apc[a] = "idle"
    /\ \E n \in 0..(MaxReceived - received) :
          /\ received' = received + n
          /\ remaining' = [remaining EXCEPT ![a] = n]
    /\ apc' = [apc EXCEPT ![a] = "upsert"]
    /\ UNCHANGED <<store, rwConn, now, apartVars, processed, procVars,
                   txRows, aerr, txBase, txHist, merged, hist, dirty>>

\* Upsert with an empty slice returns nil before any transaction
UpsertEmpty(a) ==
    /\ apc[a] = "upsert"
    /\ remaining[a] = 0
    /\ aerr' = [aerr EXCEPT ![a] = "nil"]
    /\ apc' = [apc EXCEPT ![a] = "done"]
    /\ UNCHANGED <<store, rwConn, now, apartVars, received, processed,
                   procVars, remaining, txRows, txBase, txHist, merged, hist, dirty>>

\* BeginTx takes the single read-write connection, or fails
UpsertBegin(a) ==
    /\ apc[a] = "upsert"
    /\ remaining[a] > 0
    /\ rwConn = 0
    /\ \/ /\ rwConn' = a
          /\ txRows' = [txRows EXCEPT ![a] = store]
          /\ txBase' = [txBase EXCEPT ![a] = store]
          /\ txHist' = [txHist EXCEPT ![a] = hist]
          /\ apc' = [apc EXCEPT ![a] = "exec"]
          /\ UNCHANGED <<aerr, remaining>>
       \/ /\ aerr' = [aerr EXCEPT ![a] = "begin transaction"]
          /\ apc' = [apc EXCEPT ![a] = "done"]
          /\ remaining' = [remaining EXCEPT ![a] = 0]
          /\ UNCHANGED <<rwConn, txRows, txBase, txHist>>
    /\ UNCHANGED <<store, now, apartVars, received, processed, procVars,
                   merged, hist, dirty>>

\* the deferred tx.Rollback() on a non-nil err: the transaction's rows are
\* dropped and Upsert returns the error
UpsertRollback(a, err) ==
    /\ rwConn' = 0
    /\ aerr' = [aerr EXCEPT ![a] = err]
    /\ apc' = [apc EXCEPT ![a] = "done"]
    /\ remaining' = [remaining EXCEPT ![a] = 0]
    /\ txRows' = [txRows EXCEPT ![a] = {}]
    /\ txHist' = [txHist EXCEPT ![a] = [f \in Folders |-> NoHist]]
    /\ txBase' = [txBase EXCEPT ![a] = {}]
    /\ merged' = [merged EXCEPT ![a] = "none"]
    /\ UNCHANGED <<store, now, apartVars, received, processed, procVars,
                   hist, dirty>>

\* execUpsert of the next scan of the slice inside the transaction
ExecUpsertAutocommit(a, s) ==
    /\ txRows' = [txRows EXCEPT ![a] = sqlUpsert(txRows[a], s)]
    /\ store' = sqlUpsert(store, s)
    /\ txHist' = [txHist EXCEPT ![a] = HistUpsert(txHist[a], s)]
    /\ merged' = [merged EXCEPT ![a] = MergeKind(txRows[a], s)]
    /\ remaining' = [remaining EXCEPT ![a] = remaining[a] - 1]
    /\ UNCHANGED <<rwConn, now, apartVars, received, processed, procVars,
                   apc, aerr, txBase, hist, dirty>>

ExecUpsert(a, s) ==
    /\ txRows' = [txRows EXCEPT ![a] = sqlUpsert(txRows[a], s)]
    /\ txHist' = [txHist EXCEPT ![a] = HistUpsert(txHist[a], s)]
    /\ merged' = [merged EXCEPT ![a] = MergeKind(txRows[a], s)]
    /\ remaining' = [remaining EXCEPT ![a] = remaining[a] - 1]
    /\ UNCHANGED <<store, rwConn, now, apartVars, received, processed,
                   procVars, apc, aerr, txBase, hist, dirty>>

\* one turn of the loop over scans: the upsert succeeds or returns its error
UpsertExec(a) ==
    /\ apc[a] = "exec"
    /\ rwConn = a
    /\ remaining[a] > 0
    /\ \/ \E s \in Scans : ExecUpsert(a, s)
       \/ UpsertRollback(a, "exec upsert")

\* tx.Commit(): the transaction's rows become the committed rows, or it fails
UpsertCommit(a) ==
    /\ apc[a] = "exec"
    /\ rwConn = a
    /\ remaining[a] = 0
    /\ \/ /\ store' = txRows[a]
          /\ rwConn' = 0
          /\ aerr' = [aerr EXCEPT ![a] = "nil"]
          /\ apc' = [apc EXCEPT ![a] = "done"]
          /\ hist' = txHist[a]
          /\ dirty' = [p \in Procs |->
                         dirty[p] \/ (InFlight(p) /\ RowsOf(txRows[a], scan[p].folder)
                                                   # RowsOf(store, scan[p].folder))]
          /\ txRows' = [txRows EXCEPT ![a] = {}]
          /\ txHist' = [txHist EXCEPT ![a] = [f \in Folders |-> NoHist]]
          /\ txBase' = [txBase EXCEPT ![a] = {}]
          /\ merged' = [merged EXCEPT ![a] = "none"]
          /\ UNCHANGED <<now, apartVars, received, processed, procVars,
                         remaining>>
       \/ UpsertRollback(a, "commit transaction")

\* Add returns Upsert's error to its caller
AddReturn(a) ==
    /\ apc[a] = "done"
    /\ apc' = [apc EXCEPT ![a] = "idle"]
    /\ aerr' = [aerr EXCEPT ![a] = "nil"]
    /\ UNCHANGED <<store, rwConn, now, apartVars, received, processed,
                   procVars, remaining, txRows, txBase, txHist, merged, hist, dirty>>

Add(a) ==
    \/ AddCall(a)
    \/ UpsertEmpty(a)
    \/ UpsertBegin(a)
    \/ UpsertExec(a)
    \/ UpsertCommit(a)
    \/ AddReturn(a)

\* ---------------------------------------------------- Processor.Process

TargetErrors == {"TargetUnavailable", "Fatal"}

\* p.processMu.Lock()
ProcessLockNoMutex(p) ==
    /\ pc[p] = "idle"
    /\ processMu' = p
    /\ pc' = [pc EXCEPT ![p] = "fetch"]
    /\ dirty' = [dirty EXCEPT ![p] = FALSE]
    /\ UNCHANGED <<store, rwConn, now, apartVars, received, processed,
                   scan, perr, gerr, addVars, hist>>

ProcessLock(p) ==
    /\ pc[p] = "idle"
    /\ processMu = 0
    /\ processMu' = p
    /\ pc' = [pc EXCEPT ![p] = "fetch"]
    /\ dirty' = [dirty EXCEPT ![p] = FALSE]
    /\ UNCHANGED <<store, rwConn, now, apartVars, received, processed,
                   scan, perr, gerr, addVars, hist>>

\* scan, err := p.store.GetAvailableScan(p.minimumAge); if err != nil return err
ProcessFetch(p) ==
    /\ pc[p] = "fetch"
    /\ \/ \E r \in GetAvailableScan(store, now, minimumAge) :
             /\ scan' = [scan EXCEPT ![p] = r]
             /\ gerr' = [gerr EXCEPT ![p] = "nil"]
             /\ pc' = [pc EXCEPT ![p] = "dispatch"]
             /\ UNCHANGED perr
       \/ /\ GetAvailableScan(store, now, minimumAge) = {}
          /\ perr' = [perr EXCEPT ![p] = "NoScans"]
          /\ pc' = [pc EXCEPT ![p] = "return"]
          /\ scan' = [scan EXCEPT ![p] = NoScan]
          /\ UNCHANGED gerr
       \/ /\ perr' = [perr EXCEPT ![p] = "Fatal"]
          /\ pc' = [pc EXCEPT ![p] = "return"]
          /\ scan' = [scan EXCEPT ![p] = NoScan]
          /\ UNCHANGED gerr
    /\ UNCHANGED <<store, rwConn, now, apartVars, received, processed,
                   processMu, addVars, hist, dirty>>

\* g.Wait() of callTargets: the error the dispatch returns
GroupWaitIgnoreError(p) == "nil"

GroupWait(p) == gerr[p]

\* err = p.callTargets(targets, scan); if err != nil return err.
\* Every target's Scan runs in its own goroutine and touches nothing of the
\* processor; the errgroup keeps the error of the first target to fail.
ProcessCallTargets(p) ==
    /\ pc[p] = "dispatch"
    /\ \E res \in [Targets -> {"nil"} \cup TargetErrors] :
          \/ /\ \A t \in Targets : res[t] = "nil"
             /\ gerr' = [gerr EXCEPT ![p] = "nil"]
          \/ \E t \in Targets :
                /\ res[t] # "nil"
                /\ gerr' = [gerr EXCEPT ![p] = res[t]]
    /\ IF GroupWait(p)' # "nil"
       THEN /\ perr' = [perr EXCEPT ![p] = GroupWait(p)']
            /\ pc' = [pc EXCEPT ![p] = "return"]
            /\ dirty' = [dirty EXCEPT ![p] = FALSE]
            /\ UNCHANGED scan
       ELSE /\ pc' = [pc EXCEPT ![p] = "delete"]
            /\ UNCHANGED <<perr, scan, dirty>>
    /\ UNCHANGED <<store, rwConn, now, apartVars, received, processed,
                   processMu, addVars, hist>>

\* err = p.store.Delete(scan) succeeded: the row of the folder is gone
DeleteRowSkipped(p) ==
    /\ pc' = [pc EXCEPT ![p] = "count"]
    /\ UNCHANGED <<store, hist, dirty, perr, scan>>

DeleteRow(p) ==
    /\ store' = sqlDelete(store, scan[p].folder)
    /\ hist' = [hist EXCEPT ![scan[p].folder] = NoHist]
    /\ dirty' = [dirty EXCEPT ![p] = FALSE]
    /\ pc' = [pc EXCEPT ![p] = "count"]
    /\ UNCHANGED <<perr, scan>>

\* err = p.store.Delete(scan); if err != nil return err
ProcessDelete(p) ==
    /\ pc[p] = "delete"
    /\ rwConn = 0
    /\ \/ DeleteRow(p)
       \/ /\ perr' = [perr EXCEPT ![p] = "Error"]
          /\ pc' = [pc EXCEPT ![p] = "return"]
          /\ scan' = [scan EXCEPT ![p] = NoScan]
          /\ dirty' = [dirty EXCEPT ![p] = FALSE]
          /\ UNCHANGED <<store, hist>>
    /\ UNCHANGED <<rwConn, now, apartVars, received, processed, processMu,
                   gerr, addVars>>

\* p.stats.Processed.Add(1); return nil
ProcessCountsTwice(p) ==
    /\ pc[p] = "count"
    /\ processed' = processed + 2
    /\ perr' = [perr EXCEPT ![p] = "nil"]
    /\ pc' = [pc EXCEPT ![p] = "return"]
    /\ scan' = [scan EXCEPT ![p] = NoScan]
    /\ dirty' = [dirty EXCEPT ![p] = FALSE]
    /\ UNCHANGED <<store, rwConn, now, apartVars, received, processMu,
                   gerr, addVars, hist>>

ProcessCount(p) ==
    /\ pc[p] = "count"
    /\ processed' = processed + 1
    /\ perr' = [perr EXCEPT ![p] = "nil"]
    /\ pc' = [pc EXCEPT ![p] = "return"]
    /\ scan' = [scan EXCEPT ![p] = NoScan]
    /\ dirty' = [dirty EXCEPT ![p] = FALSE]
    /\ UNCHANGED <<store, rwConn, now, apartVars, received, processMu,
                   gerr, addVars, hist>>

\* the deferred p.processMu.Unlock(), on every return
ProcessReturn(p) ==
    /\ pc[p] = "return"
    /\ processMu' = 0
    /\ pc' = [pc EXCEPT ![p] = "idle"]
    /\ gerr' = [gerr EXCEPT ![p] = "nil"]
    /\ perr' = [perr EXCEPT ![p] = "nil"]
    /\ UNCHANGED <<store, rwConn, now, apartVars, received, processed,
                   scan, addVars, hist, dirty>>

Process(p) ==
    \/ ProcessLock(p)
    \/ ProcessFetch(p)
    \/ ProcessCallTargets(p)
    \/ ProcessDelete(p)
    \/ ProcessCount(p)
    \/ ProcessReturn(p)

\* ------------------------------------------------------------------ Next
Next ==
    \/ Tick
    \/ \E a \in Adders : Add(a)
    \/ \E p \in Procs : Process(p)

Spec == Init /\ [][Next]_vars

\* ------------------------------------------------- the datastore alone
\* The calls of datastore made one after the other by a single caller, each
\* from call to return; a call may fail in the database (fault).

storeFrame ==
    UNCHANGED <<rwConn, now, outerVars, received, processed, procVars,
                addVars, hist, dirty>>

\* the record of a call: again tells that the call before it was the same
\* operation on the same folder, without a fault
Called(op, folder, fault, err, row) ==
    [op |-> op, seq |-> 1 - dsCall.seq, folder |-> folder,
     fault |-> fault, err |-> err, row |-> row,
     again |-> /\ dsCall.op = op
               /\ dsCall.folder = folder
               /\ ~dsCall.fault]

\* Upsert of a slice of one scan; a write may change the order of the rows
DsUpsert ==
    /\ \/ \E s \in Scans :
             /\ store' = sqlUpsert(store, s)
             /\ dsCall' = Called("Upsert", "", FALSE, "nil", NoScan)
             /\ scanOrder' \in FolderOrders
       \/ /\ dsCall' = Called("Upsert", "", TRUE, "Error", NoScan)
          /\ UNCHANGED <<store, scanOrder>>
    /\ storeFrame

\* Delete: DELETE FROM scan WHERE folder=?, an error only when the database
\* fails
DeleteMissingRowIsError(folder) ==
    \/ /\ RowsOf(store, folder) = {}
       /\ dsCall' = Called("Delete", folder, FALSE, "NotFound", NoScan)
       /\ UNCHANGED <<store, scanOrder>>
    \/ /\ RowsOf(store, folder) # {}
       /\ store' = sqlDelete(store, folder)
       /\ dsCall' = Called("Delete", folder, FALSE, "nil", NoScan)
       /\ scanOrder' \in FolderOrders

DeleteExec(folder) ==
    /\ store' = sqlDelete(store, folder)
    /\ dsCall' = Called("Delete", folder, FALSE, "nil", NoScan)
    /\ scanOrder' \in FolderOrders

DsDelete ==
    /\ \E folder \in Folders :
          \/ DeleteExec(folder)
          \/ /\ dsCall' = Called("Delete", folder, TRUE, "Error", NoScan)
             /\ UNCHANGED <<store, scanOrder>>
    /\ storeFrame

\* GetAvailableScan found a row: QueryRowContext and Scan read it
GetRowDequeues(r) ==
    /\ dsCall' = Called("Get", "", FALSE, "nil", r)
    /\ store' = sqlDelete(store, r.folder)
    /\ UNCHANGED scanOrder

GetRow(r) ==
    /\ dsCall' = Called("Get", "", FALSE, "nil", r)
    /\ UNCHANGED <<store, scanOrder>>

DsGet ==
    /\ LET found == GetAvailableScan(store, now, minimumAge) IN
          \/ /\ found # {}
             /\ GetRow(FirstVisited(found, scanOrder))
          \/ /\ found = {}
             /\ dsCall' = Called("Get", "", FALSE, "NoScans", NoScan)
             /\ UNCHANGED <<store, scanOrder>>
          \/ /\ dsCall' = Called("Get", "", TRUE, "Fatal", NoScan)
             /\ UNCHANGED <<store, scanOrder>>
    /\ storeFrame

\* the clock reads any time when the calls are made, and stands still
\* between them
InitStore ==
    /\ \E n \in 0..MaxNow : InitAt(n)
    /\ AnchorsNone
    /\ LoopInit(Targets)
    /\ QueueInit
    /\ OtherInit

NextStore == DsUpsert \/ DsDelete \/ DsGet

SpecStore == InitStore /\ [][NextStore]_vars

\* ---------------------------------------------------------- CheckAnchors
coreFrame == UNCHANGED <<coreVars, dsVars, loopVars, queueVars, otherVars>>

\* available := pathExists(anchor)
pathExists(path) == exists[path]

\* allAvailable: no anchor of the list was found unavailable
AnyAvailable(list) == \E a \in list : pathExists(a)

AllAvailable(list) == \A a \in list : pathExists(a)

\* the log entry CheckAnchors writes for an anchor, "" for none
LoggedUntrackedAsDown(prev, available) ==
    IF prev = "up" /\ ~available THEN "Anchor Unavailable"
    ELSE IF prev # "up" /\ available THEN "Anchor Available"
    ELSE ""

Logged(prev, available) ==
    IF prev = "up" /\ ~available THEN "Anchor Unavailable"
    ELSE IF prev = "down" /\ available THEN "Anchor Available"
    ELSE ""

\* the body of CheckAnchors: with no anchors it returns true at once, else it
\* walks the anchors, logs the transitions, records what it saw and returns
\* allAvailable
CheckAnchorsBody ==
    IF anchors = {}
    THEN /\ anchorRet' = [seq |-> 1 - anchorRet.seq, ok |-> TRUE, log |-> {}]
         /\ UNCHANGED anchorState
    ELSE /\ anchorRet' =
               [seq |-> 1 - anchorRet.seq,
                ok  |-> AllAvailable(anchors),
                log |-> {<<a, Logged(anchorState[a], pathExists(a))>> :
                            a \in {b \in anchors :
                                     Logged(anchorState[b], pathExists(b)) # ""}}]
         /\ anchorState' =
               [a \in Anchors |->
                   IF a \in anchors
                   THEN IF pathExists(a) THEN "up" ELSE "down"
                   ELSE anchorState[a]]

\* a call of CheckAnchors by its single caller
CheckAnchors ==
    /\ CheckAnchorsBody
    /\ UNCHANGED <<anchors, exists>>
    /\ coreFrame

\* a path appears or disappears
FsChange ==
    /\ \E a \in anchors : exists' = [exists EXCEPT ![a] = ~exists[a]]
    /\ UNCHANGED <<anchors, anchorState, anchorRet>>
    /\ coreFrame

InitAnchors ==
    /\ InitAt(0)
    /\ LoopInit(Targets)
    /\ QueueInit
    /\ OtherInit
    /\ \E cfg \in SUBSET Anchors : \E ex \in [Anchors -> BOOLEAN] :
          AnchorsInit(cfg, ex)

NextAnchors == CheckAnchors \/ FsChange

SpecAnchors == InitAnchors /\ [][NextAnchors]_vars

\* ----------------------------------------------------------- runScanLoop
\* The loop is one goroutine, caller 1 of Process; Add is left out, the rows
\* are those found in the database at start.
Looper == 1

\* errors of CheckAvailability: the first error of a target's Available
AvailabilityErrors == {"TargetUnavailable", "Fatal", "Error"}

\* where the loop goes after CheckAnchors returned ok
AnchorGateOpen(ok) == "gate"

AnchorGate(ok) == IF ok THEN "gate" ELSE "sleepNoScans"

\* top of an iteration: log.Fatal without targets, else the anchor gate
LoopTop ==
    /\ lpc = "top"
    /\ IF targets = {}
       THEN /\ lpc' = "exit"
            /\ UNCHANGED <<anchorState, anchorRet>>
       ELSE /\ CheckAnchorsBody
            /\ lpc' = AnchorGate(anchorRet'.ok)
    /\ UNCHANGED <<coreVars, dsVars, anchors, exists, targets,
                   targetsAvailable, lerr, retried, availOk, queueVars,
                   otherVars>>

\* if !targetsAvailable: CheckAvailability and the switch on its error
LoopGate ==
    /\ lpc = "gate"
    /\ IF targetsAvailable
       THEN /\ lpc' = "process"
            /\ UNCHANGED <<targetsAvailable, lerr, availOk>>
       ELSE \E err \in {"nil"} \cup AvailabilityErrors :
               /\ lerr' = err
               /\ targetsAvailable' = (err = "nil")
               /\ availOk' = (err = "nil")
               /\ lpc' = IF err = "nil" THEN "process"
                         ELSE IF err = "Fatal" THEN "exit"
                         ELSE "sleepNoScans"
    /\ UNCHANGED <<coreVars, dsVars, anchorVars, targets, retried, queueVars,
                   otherVars>>

\* err := proc.Process(targets), step by step until it is about to return
LoopProcessCall ==
    /\ lpc = "process"
    /\ \/ ProcessLock(Looper)
       \/ ProcessFetch(Looper)
       \/ ProcessCallTargets(Looper)
       \/ ProcessDelete(Looper)
       \/ ProcessCount(Looper)

\* the errors of Process on which the loop calls log.Fatal
ExitsOnUnavailable(err) == err \notin {"nil", "NoScans"}

ExitsOn(err) == err \notin {"nil", "NoScans", "TargetUnavailable"}

\* targetsAvailable after Process returned err
GateAfterStaysOpen(err, open) == open

GateAfter(err, open) == IF err = "TargetUnavailable" THEN FALSE ELSE open

\* Process returns (the deferred Unlock) and the loop switches on its error
LoopProcessReturn ==
    /\ lpc = "process"
    /\ pc[Looper] = "return"
    /\ processMu' = 0
    /\ pc' = [pc EXCEPT ![Looper] = "idle"]
    /\ gerr' = [gerr EXCEPT ![Looper] = "nil"]
    /\ perr' = [perr EXCEPT ![Looper] = "nil"]
    /\ lerr' = perr[Looper]
    /\ retried' = IF lerr' = "TargetUnavailable" THEN retried + 1 ELSE retried
    /\ retried' <= MaxRetried
    /\ targetsAvailable' = GateAfter(lerr', targetsAvailable)
    /\ availOk' = (availOk /\ lerr' # "TargetUnavailable")
    /\ lpc' = IF ExitsOn(lerr') THEN "exit"
              ELSE IF lerr' = "nil" THEN "sleepScanDelay"
              ELSE "sleepNoScans"
    /\ UNCHANGED <<store, rwConn, now, minimumAge, received, processed, scan,
                   addVars, hist, dirty, dsVars, anchorVars, targets,
                   queueVars, otherVars>>

\* time.Sleep(noScansDelay) or time.Sleep(scanDelay), then the next iteration
LoopSleep ==
    /\ lpc \in {"sleepNoScans", "sleepScanDelay"}
    /\ lpc' = "top"
    /\ UNCHANGED <<coreVars, dsVars, anchorVars, targets, targetsAvailable,
                   lerr, retried, availOk, queueVars, otherVars>>

\* the tables with at most one row per folder
Tables ==
    UNION {{{[folder |-> f, relative_path |-> c[f][1], priority |-> c[f][2],
              time |-> c[f][3]] : f \in F} :
               c \in [F -> RelPaths \X Priorities \X Times]} :
             F \in SUBSET Folders}

\* the loop starts on any table, with or without targets, one anchor
\* configured, the clock late enough for rows to be eligible
InitLoop ==
    /\ \E rows \in Tables : InitWith(MaxNow, rows)
    /\ \E up \in BOOLEAN :
          AnchorsInit({CHOOSE a \in Anchors : TRUE}, [a \in Anchors |-> up])
    /\ \E ts \in {{}, Targets} : LoopInit(ts)
    /\ QueueInit
    /\ OtherInit

NextLoop ==
    \/ LoopTop
    \/ LoopGate
    \/ LoopProcessCall
    \/ LoopProcessReturn
    \/ LoopSleep
    \/ FsChange

SpecLoop == InitLoop /\ [][NextLoop]_vars

\* the last tick of the clock at which no row is old enough
LiveStart ==
    CHOOSE n \in 0..MaxNow :
        /\ Cutoff(n, MinimumAge) <= 0
        /\ Cutoff(n + 1, MinimumAge) > 0

\* the tables whose rows are all old enough before the clock stops; the
\* loop reads no relative path, one value stands for all
LiveTables ==
    {rows \in Tables :
        /\ \A r \in rows : r.time < Cutoff(MaxNow, MinimumAge)
        /\ \A r \in rows : r.relative_path = ""}

\* the loop started when the rows of the table are not yet old enough
InitLoopLive ==
    /\ \E rows \in LiveTables : InitWith(LiveStart, rows)
    /\ \E up \in BOOLEAN :
          AnchorsInit({CHOOSE a \in Anchors : TRUE}, [a \in Anchors |-> up])
    /\ \E ts \in {{}, Targets} : LoopInit(ts)
    /\ QueueInit
    /\ OtherInit

NextLoopLive == NextLoop \/ Tick

\* the goroutine of the loop is scheduled as long as it can take a step,
\* its sleeps end, and the clock advances; nothing is assumed of the mounts,
\* of the targets or of the database
SpecLoopLive ==
    /\ InitLoopLive
    /\ [][NextLoopLive]_vars
    /\ WF_vars(LoopTop)
    /\ WF_vars(LoopGate)
    /\ WF_vars(LoopProcessCall)
    /\ WF_vars(LoopProcessReturn)
    /\ WF_vars(LoopSleep)
    /\ WF_vars(Tick)

\* ---------------------------------------------------------- inotify queue
\* The queue's worker is one goroutine that takes either a path from inputs
\* or a tick of its ticker; the clock unit here is the ticker's period.

\* filepath.Clean on the paths of QPaths: the trailing separator is dropped
Clean(path) == IF path = "/m/x/" THEN "/m/x" ELSE path

\* the priority newQueue was given
qPriority == MaxPriority

\* the firing time add stores for an event at time t
FiringTimeLate(t) == t + QueueDelay + 1

FiringTime(t) == t + QueueDelay

\* now.Before(t) in process: the entry with firing time t is not due yet
Before(n, t) == n < t

\* the entry with firing time t of a ready scan once process has returned,
\* its callback having returned err: delete(q.scans, pathStr) ran before
\* the callback and nothing stores the path again
EntryAfterProcess(t, err) == NoTime

\* where the worker goes after a receive from inputs returned ok
AfterRecvIgnoresOk(ok) == "select"

AfterRecv(ok) == IF ok THEN "select" ELSE "returned"

\* case path, ok := <-q.inputs with ok: q.add(path)
QueueAdd ==
    \E path \in QPaths :
        /\ qpc = "select"
        /\ inputs = "open"
        /\ qScans' = [qScans EXCEPT ![path] = FiringTime(now)]
        /\ firstEvent' = [firstEvent EXCEPT ![path] =
                             IF @ = NoTime THEN now ELSE @]
        /\ lastEvent' = [lastEvent EXCEPT ![path] = now]
        /\ qpc' = AfterRecv(TRUE)
        /\ UNCHANGED <<coreVars, dsVars, anchorVars, loopVars, otherVars,
                       ready, inputs, closedAt>>

\* case <-ticker.C: q.process(), one period later; the callback of a ready
\* scan succeeds or fails, which is logged and changes nothing else
QueueTick ==
    /\ qpc = "select"
    /\ now < MaxNow
    /\ now' = now + 1
    /\ LET due == {p \in QPaths : qScans[p] # NoTime /\ ~Before(now', qScans[p])}
       IN  /\ \E errs \in [due -> {"nil", "Error"}] :
                 ready' = {[path |-> p,
                            scan |-> [folder |-> Clean(p),
                                      relative_path |-> "",
                                      priority |-> qPriority,
                                      time |-> now' \div TicksPerSec],
                            waited |-> now' - firstEvent[p],
                            log |-> IF errs[p] = "nil"
                                    THEN "Scan Enqueued"
                                    ELSE "Scan Enqueue Failed"] : p \in due}
                 /\ qScans' = [p \in QPaths |->
                                  IF p \in due
                                  THEN EntryAfterProcess(qScans[p], errs[p])
                                  ELSE qScans[p]]
           /\ firstEvent' = [p \in QPaths |->
                                IF p \in due THEN NoTime ELSE firstEvent[p]]
           /\ lastEvent' = [p \in QPaths |->
                               IF p \in due THEN NoTime ELSE lastEvent[p]]
    /\ UNCHANGED <<store, rwConn, minimumAge, received, processed, procVars,
                   addVars, hist, dirty, dsVars, anchorVars, loopVars,
                   otherVars, inputs, qpc, closedAt>>

\* close(q.inputs) by the owner of the queue
QueueClose ==
    /\ inputs = "open"
    /\ inputs' = "closed"
    /\ closedAt' = now
    /\ UNCHANGED <<coreVars, dsVars, anchorVars, loopVars, otherVars, qScans, ready,
                   firstEvent, lastEvent, qpc>>

\* case path, ok := <-q.inputs on the closed channel: if !ok { return }
QueueRecvClosed ==
    /\ qpc = "select"
    /\ inputs = "closed"
    /\ qpc' = AfterRecv(FALSE)
    /\ UNCHANGED <<coreVars, dsVars, anchorVars, loopVars, otherVars, qScans, ready,
                   firstEvent, lastEvent, inputs, closedAt>>

InitQueue == Init

NextQueue == QueueAdd \/ QueueTick \/ QueueClose \/ QueueRecvClosed

SpecQueue == InitQueue /\ [][NextQueue]_vars

\* select takes a case at random among those ready, and a closed channel is
\* ready at every select: the receive from it is not passed over for ever
SpecQueueLive == SpecQueue /\ WF_vars(QueueRecvClosed)

\* ------------------------------------------------------- drive sync jobs
\* Every drive of the account has a job in the cron scheduler.  The job
\* function takes a slot of the account's semaphore, runs the sync under the
\* watchdog and releases the slot when it returns; Run then switches on the
\* error.  len(errors) stands for the slice, which is only logged.
syncFrame == UNCHANGED <<coreVars, dsVars, anchorVars, loopVars, queueVars,
                         plexVars, hookVars, migrateVars, walkVars, moreVars>>

\* the errors Bernard's sync returns: the three sentinels Run retries on,
\* and any other error
BernardErrors == {"InvalidCredentials", "DataAnomaly", "Network", "Other"}

\* the error of the sync function: the sync's own error wrapped, else Fatal
\* wrapped around a failure of the processor callback
SyncResult(syncErr, callbackErr) ==
    IF syncErr # "nil" THEN syncErr
    ELSE IF callbackErr # "nil" THEN "Fatal"
    ELSE "nil"

\* the case the switch of Run takes for err
RunCaseFatalRetried(err) ==
    IF err = "nil" THEN "success"
    ELSE IF err \in {"InvalidCredentials", "DataAnomaly", "Network"} THEN "retry"
    ELSE "unexpected"

RunCase(err) ==
    IF err = "nil" THEN "success"
    ELSE IF err \in {"InvalidCredentials", "DataAnomaly", "Network"} THEN "retry"
    ELSE IF err = "Fatal" THEN "fatal"
    ELSE "unexpected"

\* if s.attempts >= maxSyncRetries: the job is removed
StopsAtLate(n) == n > maxSyncRetries

StopsAt(n) == n >= maxSyncRetries

\* cron.SkipIfStillRunning: the run is skipped while the previous one is
\* still executing
NeverSkips(at) == FALSE

Skips(at) == at # "idle"

\* the scheduler fires the job of drive d: skipped, or Run begins with
\* s.attempts++
CronTick(d) ==
    /\ registered[d]
    /\ IF Skips(jpc[d])
       THEN /\ lastJob' = [NoJob EXCEPT !.op = "skip", !.drive = d]
            /\ UNCHANGED <<jpc, attempts, instances>>
       ELSE /\ lastJob' = NoJob
            /\ attempts' = [attempts EXCEPT ![d] = @ + 1]
            /\ instances' = [instances EXCEPT ![d] = @ + 1]
            /\ instances'[d] <= 2
            /\ jpc' = [jpc EXCEPT ![d] = "acquire"]
    /\ UNCHANGED <<registered, done, errors, semHeld, cbFailed, consec>>
    /\ syncFrame

\* d.limiter.Acquire(context.Background(), 1) returns once a slot is free;
\* runSyncWithWatchdog then starts the sync function in its goroutine
SyncAcquire(d) ==
    /\ jpc[d] = "acquire"
    /\ semHeld < syncLimit
    /\ semHeld' = semHeld + 1
    /\ jpc' = [jpc EXCEPT ![d] = "wait"]
    /\ lastJob' = NoJob
    /\ UNCHANGED <<registered, done, attempts, errors, cbFailed, consec,
                   instances>>
    /\ syncFrame

\* the sync function completes: done <- syncFn()
SyncFinish(d) ==
    /\ jpc[d] \in {"wait", "warned"}
    /\ done[d] = "none"
    /\ \E syncErr \in {"nil"} \cup BernardErrors : \E callbackErr \in {"nil", "Error"} :
          /\ done' = [done EXCEPT ![d] = SyncResult(syncErr, callbackErr)]
          /\ cbFailed' = [cbFailed EXCEPT ![d] =
                              syncErr = "nil" /\ callbackErr # "nil"]
    /\ lastJob' = NoJob
    /\ UNCHANGED <<registered, jpc, attempts, errors, semHeld, consec,
                   instances>>
    /\ syncFrame

\* where runSyncWithWatchdog is after the watchdog's timer fired
WatchdogAbandons(at) == "idle"

AfterWatchdog(at) == "warned"

\* case <-time.After(syncWatchdogTimeout): the warning is logged
Watchdog(d) ==
    /\ jpc[d] = "wait"
    /\ jpc' = [jpc EXCEPT ![d] = AfterWatchdog(jpc[d])]
    /\ instances' = [instances EXCEPT ![d] =
                        IF jpc'[d] = "idle" THEN @ - 1 ELSE @]
    /\ lastJob' = NoJob
    /\ UNCHANGED <<registered, done, attempts, errors, semHeld, cbFailed,
                   consec>>
    /\ syncFrame

\* the weight the deferred d.limiter.Release(1) gives back when the job
\* function returns from position at
ReleasedUnlessWarned(at) == IF at = "warned" THEN 0 ELSE 1

Released(at) == 1

\* err := <-done in either branch of the select; the job function returns
\* it, its deferred Release runs, and Run switches on the error
RunReturn(d) ==
    /\ jpc[d] \in {"wait", "warned"}
    /\ done[d] # "none"
    /\ LET err == done[d]
           kind == RunCase(err)
           stop == kind = "fatal"
                   \/ (kind \in {"retry", "unexpected"} /\ StopsAt(attempts[d]))
       IN  /\ lastJob' = [op |-> "return", drive |-> d,
                          warned |-> jpc[d] = "warned", err |-> err]
           /\ done' = [done EXCEPT ![d] = "none"]
           /\ semHeld' = semHeld - Released(jpc[d])
           /\ attempts' = [attempts EXCEPT ![d] =
                              IF kind = "success" THEN 0 ELSE @]
           /\ errors' = [errors EXCEPT ![d] =
                            IF kind = "success" THEN 0
                            ELSE IF kind = "fatal" THEN @
                            ELSE @ + 1]
           /\ registered' = [registered EXCEPT ![d] = @ /\ ~stop]
           /\ consec' = [consec EXCEPT ![d] =
                            IF err = "nil" THEN 0
                            ELSE IF err = "Fatal" THEN @
                            ELSE @ + 1]
    /\ jpc' = [jpc EXCEPT ![d] = "idle"]
    /\ instances' = [instances EXCEPT ![d] = @ - 1]
    /\ cbFailed' = [cbFailed EXCEPT ![d] = FALSE]
    /\ syncFrame

InitSync == Init

NextSync ==
    \E d \in Drives :
        CronTick(d) \/ SyncAcquire(d) \/ SyncFinish(d) \/ Watchdog(d) \/ RunReturn(d)

SpecSync == InitSync /\ [][NextSync]_vars

\* ------------------------------------------------ the Plex API client
StatusUnauthorized == 401
StatusNotFound == 404
StatusInternalServerError == 500
StatusBadGateway == 502
StatusServiceUnavailable == 503
StatusGatewayTimeout == 504

\* apiClient.do: the error it returns for what client.Do gave it, "nil" with
\* the response for a status of the 2xx range
doErr(r) ==
    IF r.err THEN "TargetUnavailable"
    ELSE IF r.StatusCode >= 200 /\ r.StatusCode < 300 THEN "nil"
    ELSE IF r.StatusCode = StatusUnauthorized THEN "Fatal"
    ELSE IF r.StatusCode \in {StatusNotFound, StatusInternalServerError,
                              StatusBadGateway, StatusServiceUnavailable,
                              StatusGatewayTimeout}
         THEN "TargetUnavailable"
    ELSE "Fatal"

plexFrame == UNCHANGED <<coreVars, dsVars, anchorVars, loopVars, queueVars,
                         syncVars, hookVars, migrateVars, walkVars, moreVars>>

\* one call of apiClient.do: the request is sent, and the error is made of
\* what came back
do(r) ==
    /\ plexRes' = r
    /\ doRet' = doErr(r)
    /\ plexFrame

InitPlex == Init

NextPlex == \E r \in Responses : do(r)

SpecPlex == InitPlex /\ [][NextPlex]_vars

\* ------------------------------------------------- the Sonarr webhook
\* the place of the last separator of a path that has one
LastSlash(s) == CHOOSE i \in 1..Len(s) : s[i] = "/" /\ \A j \in (i+1)..Len(s) : s[j] # "/"

\* path.Dir, path.Base and path.Join on the clean absolute paths and clean
\* relative paths of the payloads
Dir(s) == IF LastSlash(s) = 1 THEN <<"/">> ELSE SubSeq(s, 1, LastSlash(s) - 1)

Base(s) == SubSeq(s, LastSlash(s) + 1, Len(s))

Join(a, b) == a \o <<"/">> \o b

\* the rewrite rule of the handler's configuration: From "/TV/*",
\* To "/mnt/unionfs/Media/TV/$1"
RewriteTo == <<"/", "mnt", "/", "unionfs", "/", "Media", "/", "TV", "/">>

RECURSIVE SkipSlashes(_)
\* the rest of the text after the separators matched by "/*"
SkipSlashes(s) == IF s # <<>> /\ s[1] = "/" THEN SkipSlashes(Tail(s)) ELSE s

RECURSIVE ReplaceAllString(_)
\* regexp.ReplaceAllString for the rule: every match of "/TV" and the
\* separators after it, from the left, becomes the replacement; there is no
\* group 1, so $1 is empty
ReplaceAllString(s) ==
    IF s = <<>> THEN <<>>
    ELSE IF Len(s) >= 2 /\ s[1] = "/" /\ s[2] = "TV"
         THEN RewriteTo \o ReplaceAllString(SkipSlashes(SubSeq(s, 3, Len(s))))
    ELSE <<s[1]>> \o ReplaceAllString(Tail(s))

\* the Rewriter: the first rule that matches rewrites, else the input
rewrite(s) ==
    IF \E i \in 1..(Len(s) - 1) : s[i] = "/" /\ s[i+1] = "TV"
    THEN ReplaceAllString(s) ELSE s

\* paths[k] = v unless the key was encountered
PutFirst(m, k, v) ==
    IF k \in DOMAIN m THEN m
    ELSE [x \in DOMAIN m \cup {k} |-> IF x = k THEN v ELSE m[x]]

NoPaths == [x \in {} |-> <<>>]

pathsForDownload(e) ==
    LET full == Join(e.Series, e.File)
    IN  [x \in {Dir(full)} |-> Base(full)]

pathsForSeriesDelete(e) == [x \in {e.Series} |-> <<>>]

RECURSIVE RenameFrom(_, _, _)
\* the loop of pathsForRename from the i-th renamed file on
RenameFrom(e, i, m) ==
    IF i > Len(e.RenamedFiles) THEN m
    ELSE LET f == e.RenamedFiles[i]
             cur == Join(e.Series, f.RelativePath)
             m1 == PutFirst(m, Dir(f.PreviousPath), Base(f.PreviousPath))
             m2 == PutFirst(m1, Dir(cur), Base(cur))
         IN  RenameFrom(e, i + 1, m2)

pathsForRename(e) == RenameFrom(e, 1, NoPaths)

\* the orders in which a range over the map may visit its keys
KeyOrders(m) ==
    {o \in [1..Cardinality(DOMAIN m) -> DOMAIN m] :
        \A i, j \in DOMAIN o : i # j => o[i] # o[j]}

hPriority == MaxPriority

hookFrame == UNCHANGED <<coreVars, dsVars, anchorVars, loopVars, queueVars,
                         syncVars, plexVars, migrateVars, walkVars, moreVars>>

\* handler.ServeHTTP for a payload that decodes to e; cbOk: the processor
\* callback returns no error
ServeHTTP(e, cbOk) ==
    /\ event' = e
    /\ IF e.Type = "Test"
       THEN callbackArgs' = NoScans /\ statusCode' = 200
       ELSE LET missing ==
                    \/ e.Type \in {"Download", "EpisodeFileDelete"}
                          /\ (e.File = <<>> \/ e.Series = <<>>)
                    \/ e.Type \in {"SeriesDelete", "Rename"} /\ e.Series = <<>>
                paths ==
                    IF e.Type \in {"Download", "EpisodeFileDelete"}
                    THEN pathsForDownload(e)
                    ELSE IF e.Type = "SeriesDelete" THEN pathsForSeriesDelete(e)
                    ELSE IF e.Type = "Rename" THEN pathsForRename(e)
                    ELSE NoPaths
            IN  IF missing
                THEN callbackArgs' = NoScans /\ statusCode' = 400
                ELSE /\ \E o \in KeyOrders(paths) :
                          callbackArgs' =
                              [called |-> TRUE,
                               scans |->
                                  [i \in DOMAIN o |->
                                      [folder |-> rewrite(o[i]),
                                       relative_path |-> paths[o[i]],
                                       priority |-> hPriority,
                                       time |-> now]]]
                     /\ statusCode' = IF cbOk THEN 200 ELSE 500
    /\ hookFrame

InitHook == Init

NextHook == \E e \in Events, cbOk \in BOOLEAN : ServeHTTP(e, cbOk)

SpecHook == InitHook /\ [][NextHook]_vars

\* ------------------------------------------------------- the migrator
RECURSIVE InsertByVersion(_, _)
InsertByVersion(v, s) ==
    IF s = <<>> THEN <<v>>
    ELSE IF v <= Head(s) THEN <<v>> \o s
    ELSE <<Head(s)>> \o InsertByVersion(v, Tail(s))

RECURSIVE SortByVersion(_)
\* sort.Slice by Version; files of one version are alike here
SortByVersion(s) ==
    IF s = <<>> THEN <<>> ELSE InsertByVersion(Head(s), SortByVersion(Tail(s)))

parseUnsorted(fileList) == fileList

\* Migrator.parse: the migrations of the directory, sorted by version
parse(fileList) == SortByVersion(fileList)

RollbackKeeps(d, tx) == tx

\* tx.Rollback: the database is as it was when the transaction began
Rollback(d, tx) == d

\* the faults of the database during Migrate and exec
CallFaults == {"none", "parse", "versions"}
ExecFaults == {"none", "begin", "exec", "insert", "commit"}

\* Migrator.exec for version v of component c: the database after it and
\* the error it returns.  The schema statement and the insert of the version
\* row run in one transaction; the insert fails on a row that exists
\* (primary key).
exec(d, c, v, fault) ==
    LET tx1 == [d EXCEPT !.applied = Append(@, <<c, v>>)]
        tx2 == [tx1 EXCEPT !.rows = @ \cup {<<c, v>>}]
    IN  IF fault = "begin" THEN [db |-> d, err |-> "begin"]
        ELSE IF fault = "exec" THEN [db |-> Rollback(d, d), err |-> "exec"]
        ELSE IF fault = "insert" \/ <<c, v>> \in tx1.rows
             THEN [db |-> Rollback(d, tx1), err |-> "schema_migration"]
        ELSE IF fault = "commit" THEN [db |-> d, err |-> "commit"]
        ELSE [db |-> tx2, err |-> "nil"]

migrateFrame == UNCHANGED <<coreVars, dsVars, anchorVars, loopVars, queueVars,
                            syncVars, plexVars, hookVars, walkVars, moreVars>>

Returned(c, err) ==
    [pc |-> "returned", component |-> c, migrations |-> <<>>, versions |-> {},
     i |-> 0, err |-> err]

\* Migrate up to its loop: parse, the early return, the versions recorded
MigrateCall(c, fault) ==
    /\ mig.pc # "loop"
    /\ LET migrations == parse(migFiles[c])
       IN  mig' =
             IF fault = "parse" THEN Returned(c, "parse")
             ELSE IF Len(migrations) = 0 THEN Returned(c, "nil")
             ELSE IF fault = "versions" THEN Returned(c, "versions")
             ELSE [pc |-> "loop", component |-> c, migrations |-> migrations,
                   versions |-> {v \in Versions : <<c, v>> \in migDb.rows},
                   i |-> 1, err |-> "nil"]
    /\ UNCHANGED <<migFiles, migDb>>
    /\ migrateFrame

\* one turn of the loop of Migrate, or its return after the last one
MigrateNext(fault) ==
    /\ mig.pc = "loop"
    /\ IF mig.i > Len(mig.migrations)
       THEN mig' = Returned(mig.component, "nil") /\ UNCHANGED migDb
       ELSE LET v == mig.migrations[mig.i]
                r == exec(migDb, mig.component, v, fault)
            IN  IF v \in mig.versions
                THEN mig' = [mig EXCEPT !.i = @ + 1] /\ UNCHANGED migDb
                ELSE /\ migDb' = r.db
                     /\ mig' = IF r.err # "nil"
                               THEN Returned(mig.component, r.err)
                               ELSE [mig EXCEPT !.i = @ + 1]
    /\ UNCHANGED migFiles
    /\ migrateFrame

\* any migration directories, before the first call of Migrate
InitMigrate ==
    /\ InitAt(0) /\ AnchorsNone /\ LoopInit(Targets) /\ QueueInit
    /\ SyncInit /\ PlexInit /\ HookInit /\ WalkInit /\ MoreInit
    /\ migFiles \in [Components -> FileLists]
    /\ MigrateStart

NextMigrate ==
    \/ \E c \in Components, fault \in CallFaults : MigrateCall(c, fault)
    \/ \E fault \in ExecFaults : MigrateNext(fault)

SpecMigrate == InitMigrate /\ [][NextMigrate]_vars

\* ------------------------------------------------------ getFolderPath
\* the folder of an id: the entry of the folder map, else the row of the
\* datastore, else Absent (GetFolder returns an error)
LookupParent(id) ==
    IF folderMap[id] # Absent THEN folderMap[id] ELSE bdsFolders[id]

\* filepath.Join(name, path), of which the first MaxPathLen names are kept.
\* The path grows by a name in every turn of the loop; walk.odd is the
\* parity of the names joined to the top folder's.
JoinName(name, p) == SubSeq(<<name>> \o p, 1, IF Len(p) < MaxPathLen THEN Len(p) + 1 ELSE MaxPathLen)

walkFrame == UNCHANGED <<coreVars, dsVars, anchorVars, loopVars, queueVars,
                         syncVars, plexVars, hookVars, migrateVars, moreVars>>

WalkReturned(id, p, err) ==
    [pc |-> "returned", folderID |-> id, nextFolderID |-> "", fpath |-> p,
     odd |-> FALSE, err |-> err]

\* getFolderPath up to its loop: the drive itself, the top folder
getFolderPath(id) ==
    /\ walk.pc # "loop"
    /\ walk' =
          IF id = driveID THEN WalkReturned(id, <<>>, "nil")
          ELSE IF LookupParent(id) = Absent
               THEN WalkReturned(id, <<>>, "could not get folder")
          ELSE [pc |-> "loop", folderID |-> id, nextFolderID |-> LookupParent(id),
                fpath |-> <<id>>, odd |-> FALSE, err |-> "nil"]
    /\ UNCHANGED <<folderMap, bdsFolders>>
    /\ walkFrame

\* one test of the loop condition of getFolderPath and, if it holds, one
\* turn of the loop
WalkStep ==
    /\ walk.pc = "loop"
    /\ LET next == walk.nextFolderID IN
       IF next = "" \/ next = driveID
       THEN /\ walk' = WalkReturned(walk.folderID, walk.fpath, "nil")
            /\ UNCHANGED folderMap
       ELSE IF LookupParent(next) = Absent
       THEN /\ walk' = WalkReturned(walk.folderID, walk.fpath,
                                     "could not get folder")
            /\ UNCHANGED folderMap
       ELSE /\ folderMap' = [folderMap EXCEPT ![next] = LookupParent(next)]
            /\ walk' = [walk EXCEPT !.fpath = JoinName(next, @),
                                     !.odd = ~@,
                                     !.nextFolderID = LookupParent(next)]
    /\ UNCHANGED bdsFolders
    /\ walkFrame

\* any folder map and any datastore content, before the first call
InitWalk ==
    /\ InitAt(0) /\ AnchorsNone /\ LoopInit(Targets) /\ QueueInit
    /\ SyncInit /\ PlexInit /\ HookInit /\ MigrateInit /\ MoreInit
    /\ folderMap \in [FolderIDs -> ParentIDs \cup {Absent}]
    /\ bdsFolders \in [FolderIDs -> ParentIDs \cup {Absent}]
    /\ walk = NoWalk

NextWalk == (\E id \in FolderIDs \cup {driveID} : getFolderPath(id)) \/ WalkStep

SpecWalk == InitWalk /\ [][NextWalk]_vars

\* the loop of a call is not left waiting: the goroutine goes on running
SpecWalkLive == SpecWalk /\ WF_vars(WalkStep)

\* -------------------------------------------------- reclassifyTrashed
\* append(s[:i], s[i+1:]...), places counted from 1
RemoveAt(s, i) == SubSeq(s, 1, i - 1) \o SubSeq(s, i + 1, Len(s))

\* getChange and isTrash: the new state of an entry
NewState(d) == [id |-> d.id, trashed |-> d.new]

NextAfterRemoveSkips(i) == i + 1

\* the index the loop looks at next after it removed the entry at i: i-- and
\* then the loop's i++
NextAfterRemove(i) == i

RECURSIVE ReclassifyFrom(_, _)
\* the loop of reclassifyTrashed from index i on
ReclassifyFrom(d, i) ==
    IF i > Len(d.Changed) THEN d
    ELSE LET c == d.Changed[i] IN
         IF c.old /\ ~c.new
         THEN ReclassifyFrom([Changed |-> RemoveAt(d.Changed, i),
                              Added |-> Append(d.Added, NewState(c)),
                              Removed |-> d.Removed],
                             NextAfterRemove(i))
         ELSE IF ~c.old /\ c.new
         THEN ReclassifyFrom([Changed |-> RemoveAt(d.Changed, i),
                              Added |-> d.Added,
                              Removed |-> Append(d.Removed, NewState(c))],
                             NextAfterRemove(i))
         ELSE ReclassifyFrom(d, i + 1)

\* one call of reclassifyTrashed on the lists d
reclassifyTrashed(d) ==
    /\ diffIn' = d
    /\ diff' = ReclassifyFrom(d, 1)
    /\ UNCHANGED <<earlierVars, fullVars, limVars, watchVars, statsVars>>

InitDiff == Init

NextDiff ==
    \E c \in ChangedLists, a \in AddedLists, r \in RemovedLists :
        reclassifyTrashed([Changed |-> c, Added |-> a, Removed |-> r])

SpecDiff == InitDiff /\ [][NextDiff]_vars

\* ------------------------------------------- setupDrive and full sync
\* what store.PageToken returns to setupDrive
PageTokenErrors == {"nil", "ErrFullSync", "other"}

\* setupDrive up to the creation of the job
setupDrive(d, err) ==
    /\ setupRes[d] = "new"
    /\ setupRes' = [setupRes EXCEPT ![d] =
                        IF err = "ErrFullSync" THEN "full"
                        ELSE IF err = "nil" THEN "incremental"
                        ELSE "failed"]
    /\ fullSync' = [fullSync EXCEPT ![d] = (err = "ErrFullSync")]
    /\ lastRun' = NoRun
    /\ UNCHANGED <<fspc, semHeld>>

\* the job function of d up to the sync it starts, with a slot of the
\* semaphore; a tick during a run of the job is skipped
JobStart(d) ==
    /\ setupRes[d] \in {"full", "incremental"}
    /\ fspc[d] = "idle"
    /\ semHeld < syncLimit
    /\ semHeld' = semHeld + 1
    /\ fspc' = [fspc EXCEPT ![d] = IF fullSync[d] THEN "full" ELSE "partial"]
    /\ lastRun' = NoRun
    /\ UNCHANGED <<setupRes, fullSync>>

AfterFullSyncKeeps(err) == TRUE

\* fullSync after the full sync returned err
AfterFullSync(err) == err # "nil"

\* the full sync of d returns err, and the job function with it
FullSyncDone(d, err) ==
    /\ fspc[d] = "full"
    /\ fullSync' = [fullSync EXCEPT ![d] = AfterFullSync(err)]
    /\ lastRun' = [kind |-> "full", drive |-> d, err |-> err, emitted |-> 0]
    /\ fspc' = [fspc EXCEPT ![d] = "idle"]
    /\ semHeld' = semHeld - 1
    /\ UNCHANGED setupRes

\* the partial sync of d returns err and, without error, the scan task has
\* n scans, handed to the callback, which returns cbErr
PartialSyncDone(d, err, n, cbErr) ==
    /\ fspc[d] = "partial"
    /\ lastRun' = [kind |-> "partial", drive |-> d,
                   err |-> IF err # "nil" THEN err
                           ELSE IF n > 0 /\ cbErr THEN "Fatal" ELSE "nil",
                   emitted |-> IF err # "nil" THEN 0 ELSE n]
    /\ fspc' = [fspc EXCEPT ![d] = "idle"]
    /\ semHeld' = semHeld - 1
    /\ UNCHANGED <<setupRes, fullSync>>

fullFrame ==
    UNCHANGED <<coreVars, dsVars, anchorVars, loopVars, queueVars, plexVars,
                hookVars, migrateVars, walkVars, diffVars, limVars, watchVars,
                statsVars, registered, jpc,
                done, attempts, errors, cbFailed, consec, instances, lastJob>>

InitFull == Init

NextFull ==
    /\ \E d \in Drives :
          \/ \E err \in PageTokenErrors : setupDrive(d, err)
          \/ JobStart(d)
          \/ \E err \in BernardErrors \cup {"nil"} : FullSyncDone(d, err)
          \/ \E err \in BernardErrors \cup {"nil"}, n \in 0..MaxScans,
                cbErr \in BOOLEAN : PartialSyncDone(d, err, n, cbErr)
    /\ fullFrame

SpecFull == InitFull /\ [][NextFull]_vars

\* ------------------------------------------------------ getRateLimiter
limFrame ==
    UNCHANGED <<earlierVars, diffVars, fullVars, watchVars, statsVars>>

LockAlwaysFree(holder) == TRUE

\* lock.Lock() returns to a goroutine when no goroutine holds the mutex
LockFree(holder) == holder = 0

\* a goroutine calls getRateLimiter(a) and is at lock.Lock()
LimCall(g, a) ==
    /\ caller[g].pc = "idle"
    /\ caller' = [caller EXCEPT ![g] =
                     [pc |-> "lock", account |-> a, limiter |-> NoLimiter]]
    /\ UNCHANGED <<limiters, limLock, allocated, handedOut>>
    /\ limFrame

\* lock.Lock() returns
LimLock(g) ==
    /\ caller[g].pc = "lock"
    /\ LockFree(limLock)
    /\ limLock' = g
    /\ caller' = [caller EXCEPT ![g] = [@ EXCEPT !.pc = "locked"]]
    /\ UNCHANGED <<limiters, allocated, handedOut>>
    /\ limFrame

\* limiter, ok := limiters[account]
LimLookup(g) ==
    /\ caller[g].pc = "locked"
    /\ LET found == limiters[caller[g].account] IN
       caller' = [caller EXCEPT ![g] =
                     IF found # NoLimiter
                     THEN [@ EXCEPT !.pc = "return", !.limiter = found]
                     ELSE [@ EXCEPT !.pc = "create"]]
    /\ UNCHANGED <<limiters, limLock, allocated, handedOut>>
    /\ limFrame

\* limiter := newRateLimiter(); limiters[account] = limiter
LimCreate(g) ==
    /\ caller[g].pc = "create"
    /\ allocated' = allocated + 1
    /\ limiters' = [limiters EXCEPT ![caller[g].account] = allocated']
    /\ caller' = [caller EXCEPT ![g] =
                     [@ EXCEPT !.pc = "return", !.limiter = allocated']]
    /\ UNCHANGED <<limLock, handedOut>>
    /\ limFrame

\* the deferred lock.Unlock() and the return of the limiter
LimReturn(g) ==
    /\ caller[g].pc = "return"
    /\ limLock' = IF limLock = g THEN 0 ELSE limLock
    /\ handedOut' = [handedOut EXCEPT ![caller[g].account] =
                         @ \cup {caller[g].limiter}]
    /\ caller' = [caller EXCEPT ![g] = NoCaller]
    /\ UNCHANGED <<limiters, allocated>>
    /\ limFrame

InitLim == Init

NextLim ==
    \E g \in Callers :
        \/ \E a \in Accounts : LimCall(g, a)
        \/ LimLock(g)
        \/ LimLookup(g)
        \/ LimCreate(g)
        \/ LimReturn(g)

SpecLim == InitLim /\ [][NextLim]_vars

\* ------------------------------------------- the inotify daemon's worker
\* getPathObject: the name is under the configured path /m
HasPathObject(name) == name \in {"/m/x", "/m/x/f.mkv"}

\* filepath.Ext and filepath.Dir on the names of EventNames
Ext(name) == IF name = "/m/x/f.mkv" THEN ".mkv" ELSE ""

DirOf(name) ==
    IF name = "/m/x/f.mkv" THEN "/m/x"
    ELSE IF name = "/m/x" THEN "/m" ELSE "/n"

CreateSkipsOnlyErrors(stat) == stat = "err"

\* the Create case ends in continue: os.Stat failed, or the name is a
\* directory, which is walked and put under watch
CreateSkips(stat) == stat \in {"err", "dir"}

\* what the switch on event.Op does: "skip" for continue, "go on" else
OpSwitch(e) ==
    IF "Create" \in e.Op
    THEN IF CreateSkips(e.stat) THEN "skip" ELSE "go on"
    ELSE IF "Rename" \in e.Op \/ "Remove" \in e.Op THEN "go on"
    ELSE "skip"

\* the path the worker sends to queue.inputs for e; the path's rewriter
\* has no rule and returns its input
SentFor(e) ==
    IF OpSwitch(e) = "skip" THEN NoPath
    ELSE IF ~HasPathObject(e.Name) THEN NoPath
    ELSE IF ~e.allowed THEN NoPath
    ELSE IF Ext(e.Name) # "" THEN DirOf(e.Name)
    ELSE e.Name

\* one turn of the worker's loop for the event e
WorkerEvent(e) ==
    /\ fsEvent' = e
    /\ sent' = SentFor(e)
    /\ watchAdded' = ("Create" \in e.Op /\ e.stat = "dir")
    /\ UNCHANGED <<earlierVars, diffVars, fullVars, limVars, statsVars>>

InitWatch == Init

NextWatch == \E e \in FsEvents : WorkerEvent(e)

SpecWatch == InitWatch /\ [][NextWatch]_vars

\* ------------------------------------------------------------ statistics
\* Stats is three atomic.Int64 counters.  The processor and the scan loop
\* add to them from their goroutines; the stats printer calls Snapshot from
\* its own.  A Load or an Add of one counter is one step.

statsFrame == UNCHANGED <<earlierVars, diffVars, fullVars, limVars, watchVars>>

\* s.Received.Add, s.Processed.Add, s.Retried.Add by another goroutine
StatsAdd(c) ==
    /\ stats[c] < MaxCount
    /\ stats' = [stats EXCEPT ![c] = @ + 1]
    /\ instants' = IF snapPc \in {"idle", "returned"}
                   THEN instants
                   ELSE instants \cup {stats'}
    /\ UNCHANGED <<snapPc, snap>>
    /\ statsFrame

\* st.Snapshot() is called
SnapshotCall ==
    /\ snapPc \in {"idle", "returned"}
    /\ snapPc' = Counters[1]
    /\ snap' = ZeroStats
    /\ instants' = {stats}
    /\ UNCHANGED stats
    /\ statsFrame

\* the counter Snapshot loads after the i-th
AfterLoad(i) == IF i < Len(Counters) THEN Counters[i + 1] ELSE "returned"

\* the next field of the literal: s.<counter>.Load()
SnapshotLoad ==
    \E i \in DOMAIN Counters :
        /\ snapPc = Counters[i]
        /\ snap' = [snap EXCEPT ![Counters[i]] = stats[Counters[i]]]
        /\ snapPc' = AfterLoad(i)
        /\ UNCHANGED <<stats, instants>>
        /\ statsFrame

InitStats == Init

NextStats ==
    \/ \E c \in {"Received", "Processed", "Retried"} : StatsAdd(c)
    \/ SnapshotCall
    \/ SnapshotLoad

SpecStats == InitStats /\ [][NextStats]_vars

\* ---------------------------------------------------------------- claims

\* C1: the stored row of a folder carries the greatest priority of all the
\* scans upserted for it since it was created, and the relative_path and
\* time of the most recent of them.
C1_UpsertMaxPriorityLastWriter ==
    /\ \A r \in store :
          /\ hist[r.folder].seen
          /\ r.priority = hist[r.folder].maxPriority
          /\ r.relative_path = hist[r.folder].relative_path
          /\ r.time = hist[r.folder].time
    /\ \A f \in Folders : hist[f].seen => RowsOf(store, f) # {}

\* C1 witness: an Upsert has merged a scan of lower priority into the
\* committed row of its folder and is about to commit: the row keeps its
\* priority and takes the scan's relative_path.
C1_Witness ==
    \E a \in Adders : \E r \in txRows[a] : \E b \in txBase[a] :
        /\ apc[a] = "exec"
        /\ remaining[a] = 0
        /\ merged[a] = "keep"
        /\ Cardinality(txRows[a]) = 1
        /\ b.folder = r.folder
        /\ b.priority = r.priority
        /\ b.relative_path # r.relative_path

\* C2: whenever Process deletes the row of a folder, the row deleted is the
\* scan that the targets accepted in that call, also when Add upserted the
\* folder between the fetch and the delete.
C2_DeletedRowIsDispatchedScan ==
    [][\A p \in Procs :
          (pc[p] = "delete" /\ pc'[p] = "count")
              => /\ gerr[p] = "nil"
                 /\ (store \ store') \subseteq {scan[p]}]_vars

\* C3: when a target's Scan returns an error, Process returns that error
\* and neither deletes the row nor counts it as processed: when it returns,
\* the folder is still stored, with the fields that were dispatched unless an
\* Add upserted it meanwhile.
TargetFailed(p) == gerr[p] \in TargetErrors

C3_TargetErrorKeepsRow ==
    [][\A p \in Procs :
          /\ (pc[p] = "dispatch" /\ pc'[p] # "dispatch" /\ TargetFailed(p)')
                => /\ pc'[p] = "return"
                   /\ perr'[p] = gerr'[p]
                   /\ UNCHANGED <<store, processed>>
                   /\ RowsOf(store', scan[p].folder) # {}
                   /\ (~dirty[p] => scan[p] \in store')
          /\ (pc[p] = "return" /\ pc'[p] = "idle" /\ TargetFailed(p))
                => UNCHANGED <<store, processed>>]_vars

\* C3 witness: a Process call about to return the error of a target, with
\* rows stored and nothing counted.
C3_Witness ==
    \E p \in Procs :
        /\ pc[p] = "return"
        /\ gerr[p] = "TargetUnavailable"
        /\ perr[p] = "TargetUnavailable"
        /\ store # {}
        /\ processed = 0

\* C4: when every target accepts, Process deletes the row of the dispatched
\* folder (and no other row) and then adds exactly 1 to processed and
\* returns nil, the folder being absent unless an Add upserted it after the
\* delete; processed changes in no other step.
C4_SuccessDeletesThenCounts ==
    /\ [](\A p \in Procs :
            pc[p] = "count"
                => /\ gerr[p] = "nil"
                   /\ (dirty[p] \/ RowsOf(store, scan[p].folder) = {}))
    /\ [][\A p \in Procs :
            /\ (pc[p] = "delete" /\ pc'[p] = "count")
                  => /\ store' = {r \in store : r.folder # scan[p].folder}
                     /\ processed' = processed
            /\ (pc[p] # "return" /\ pc'[p] = "return" /\ perr'[p] = "nil")
                  => /\ pc[p] = "count"
                     /\ processed' = processed + 1
                     /\ store' = store]_vars
    /\ [][processed' # processed
            => /\ processed' = processed + 1
               /\ \E p \in Procs :
                     pc[p] = "count" /\ pc'[p] = "return" /\ perr'[p] = "nil"]_vars

\* C4 witness: a successful Process call has deleted its row and counted it,
\* and the row of the other folder is still stored.
C4_Witness ==
    \E p \in Procs :
        /\ pc[p] = "return"
        /\ perr[p] = "nil"
        /\ processed = 1
        /\ received = 2
        /\ Cardinality(store) = 1

\* C5: at most one Process call is between its fetch and its return at any
\* time, the call that holds processMu; the mutex is free whenever no call
\* is in flight, whatever the exit path of the last one.
C5_SingleFlight ==
    /\ Cardinality({p \in Procs : pc[p] # "idle"}) <= 1
    /\ \A p \in Procs : pc[p] # "idle" => processMu = p
    /\ (\A p \in Procs : pc[p] = "idle") => processMu = 0

\* C5 witness: a call leaving on the delete-error path still holds the mutex
\* while the other caller waits.
C5_Witness ==
    \E p, q \in Procs :
        /\ p # q
        /\ pc[p] = "return"
        /\ perr[p] = "Error"
        /\ processMu = p
        /\ pc[q] = "idle"

\* a row is too young when its time is not before now - minimumAge
TooYoung(r) == r.time * TicksPerSec >= now - minimumAge

\* C6: GetAvailableScan never returns a row with time >= now - minimumAge,
\* future rows included, and returns ErrNoScans when every row is too young.
C6_NeverReturnsYoungRow ==
    /\ \A r \in GetAvailableScan(store, now, minimumAge) : ~TooYoung(r)
    /\ (\A r \in store : TooYoung(r)) => GetAvailableScan(store, now, minimumAge) = {}
    /\ \A p \in Procs : pc[p] = "dispatch" => ~TooYoung(scan[p])

\* C6 witness: Process got ErrNoScans while the store holds a row of a
\* future time.
C6_Witness ==
    \E p \in Procs :
        /\ pc[p] = "return"
        /\ perr[p] = "NoScans"
        /\ \E r \in store : r.time * TicksPerSec > now
        /\ \A r \in store : TooYoung(r)

\* the best rows of a set: highest priority, then earliest time
BestOf(rows) ==
    {r \in rows : \A o \in rows :
        r.priority > o.priority \/ (r.priority = o.priority /\ r.time <= o.time)}

\* a row is visible when its time is before now - minimumAge, both taken
\* in whole Unix seconds as the rows' times are
Visible(r) == (r.time + 1) * TicksPerSec <= now - minimumAge

\* C7: among the rows with time < now - minimumAge (in whole Unix seconds)
\* GetAvailableScan returns one row of highest priority and, within that
\* priority, earliest time; Process gets ErrNoScans exactly when there is no
\* such row.
C7_BestVisibleRow ==
    /\ [](LET old == {r \in store : Visible(r)}
              got == GetAvailableScan(store, now, minimumAge)
          IN  /\ got \subseteq BestOf(old)
              /\ (got = {}) <=> (old = {}))
    /\ [][\A p \in Procs :
            (pc[p] = "fetch" /\ pc'[p] # "fetch")
                => \/ pc'[p] = "dispatch"
                      /\ scan'[p] \in BestOf({r \in store : Visible(r)})
                   \/ pc'[p] = "return" /\ perr'[p] = "NoScans"
                      /\ {r \in store : Visible(r)} = {}
                   \/ pc'[p] = "return" /\ perr'[p] = "Fatal"]_vars

\* C7 witness: two visible rows; the one fetched has the higher priority and
\* the later time.
C7_Witness ==
    \E p \in Procs :
        /\ pc[p] = "dispatch"
        /\ \E o \in store :
              /\ Visible(o)
              /\ o.priority < scan[p].priority
              /\ o.time < scan[p].time

\* C8 (as claimed): a row whose time equals now - minimumAge is eligible and
\* is returned when no other row outranks it.
C8_Original ==
    \A r \in store :
        (/\ r.time * TicksPerSec = now - minimumAge
         /\ \A o \in store \ {r} : r.priority > o.priority)
            => r \in GetAvailableScan(store, now, minimumAge)

\* C8 (amended): a row becomes eligible when time < now - minimumAge, in
\* whole Unix seconds: a row whose time equals the second of
\* now - minimumAge is not returned, and a row one second older is returned
\* when no other row outranks it.
C8_EligibleStrictlyOlder ==
    \A r \in store :
        /\ (/\ r.time * TicksPerSec <= now - minimumAge
            /\ now - minimumAge < (r.time + 1) * TicksPerSec)
              => r \notin GetAvailableScan(store, now, minimumAge)
        /\ (/\ (r.time + 1) * TicksPerSec = now - minimumAge
            /\ \A o \in store \ {r} : r.priority > o.priority)
              => GetAvailableScan(store, now, minimumAge) = {r}

\* C8 witness: the only row has time = now - minimumAge and Process got
\* ErrNoScans.
C8_Witness ==
    \E p \in Procs :
        /\ pc[p] = "return"
        /\ perr[p] = "NoScans"
        /\ \E r \in store : store = {r} /\ r.time * TicksPerSec = now - minimumAge

\* C9: the committed table, and the table inside any open transaction,
\* holds at most one row per folder.
C9_OneRowPerFolder ==
    /\ \A r1, r2 \in store : r1.folder = r2.folder => r1 = r2
    /\ \A a \in Adders : \A r1, r2 \in txRows[a] : r1.folder = r2.folder => r1 = r2

\* C9 witness: an upsert of a folder that already has a committed row.
C9_Witness ==
    \E a \in Adders :
        /\ apc[a] = "exec"
        /\ merged[a] \in {"raise", "keep"}
        /\ Cardinality(txRows[a]) = Cardinality(txBase[a])

\* C10: while a transaction of Upsert is open none of its rows is visible;
\* when an upsert or the commit fails the store is as it was when the
\* transaction began; an empty slice changes nothing and returns nil.
C10_UpsertAtomic ==
    /\ [](\A a \in Adders : apc[a] = "exec" => store = txBase[a])
    /\ [][\A a \in Adders :
            /\ (apc[a] = "exec" /\ apc'[a] = "done" /\ aerr'[a] # "nil")
                  => store' = txBase[a]
            /\ (apc[a] = "upsert" /\ apc'[a] = "done" /\ aerr'[a] # "nil")
                  => store' = store
            /\ (apc[a] = "upsert" /\ remaining[a] = 0 /\ apc'[a] # "upsert")
                  => /\ store' = store
                     /\ aerr'[a] = "nil"
                     /\ apc'[a] = "done"]_vars

\* C10 witness: the commit of an Upsert failed, after every row of its slice
\* had been upserted inside the transaction.
C10_Witness ==
    \E a \in Adders :
        /\ apc[a] = "done"
        /\ aerr[a] = "commit transaction"

\* C11: Delete(folder) removes exactly the row of the folder and leaves every
\* other row as it was; without a row of the folder it succeeds and changes
\* nothing, so a second Delete of the folder leaves the store as the first did.
DeleteStep == dsCall'.seq # dsCall.seq /\ dsCall'.op = "Delete"

C11_DeleteExactlyFolder ==
    /\ [](dsCall.op = "Delete" /\ ~dsCall.fault
            => dsCall.err = "nil" /\ RowsOf(store, dsCall.folder) = {})
    /\ [][DeleteStep /\ ~dsCall'.fault
            => /\ dsCall'.err = "nil"
               /\ store' = {r \in store : r.folder # dsCall'.folder}
               /\ (RowsOf(store, dsCall'.folder) = {} => store' = store)
               /\ (dsCall'.again => store' = store)]_vars

\* C11 witness: a second Delete of the same folder has succeeded, the row of
\* the other folder being still stored.
C11_Witness ==
    /\ dsCall.op = "Delete"
    /\ dsCall.again
    /\ dsCall.err = "nil"
    /\ store # {}

\* C12: GetAvailableScan leaves the store as it is, and called again with no
\* call between and the clock unchanged (it stands still in SpecStore) it
\* returns the same row, or ErrNoScans again.
GetStep == dsCall'.seq # dsCall.seq /\ dsCall'.op = "Get"

C12_GetDoesNotDequeue ==
    /\ [][GetStep => store' = store]_vars
    /\ [][GetStep /\ dsCall'.again /\ ~dsCall'.fault
            => dsCall'.err = dsCall.err /\ dsCall'.row = dsCall.row]_vars

\* C12 witness: a second GetAvailableScan has returned a row while another
\* row of the same priority and time is stored.
C12_Witness ==
    /\ dsCall.op = "Get"
    /\ dsCall.again
    /\ dsCall.err = "nil"
    /\ dsCall.row \in store
    /\ \E r \in store :
          /\ r.folder # dsCall.row.folder
          /\ r.priority = dsCall.row.priority
          /\ r.time = dsCall.row.time

\* C13: Add adds the length of its slice to received before Upsert runs and
\* whatever Upsert returns; received changes in no other step, and Add
\* returns the error of Upsert without a further effect.
C13_AddCountsThenUpserts ==
    /\ [][\A a \in Adders :
            /\ (apc[a] = "idle" /\ apc'[a] # "idle")
                  => /\ apc'[a] = "upsert"
                     /\ received' = received + remaining'[a]
                     /\ store' = store
            /\ (apc[a] = "done" /\ apc'[a] # "done")
                  => /\ apc'[a] = "idle"
                     /\ UNCHANGED <<received, store>>]_vars
    /\ [][received' # received
            => \E a \in Adders : apc[a] = "idle" /\ apc'[a] = "upsert"]_vars

\* C13 witness: Add is about to return the error of a failed upsert, its
\* scans counted as received and none of them stored.
C13_Witness ==
    \E a \in Adders :
        /\ apc[a] = "done"
        /\ aerr[a] = "exec upsert"
        /\ received > 0
        /\ store = {}

\* C14: CheckAnchors returns true exactly when every configured anchor
\* exists, and true when no anchor is configured.
CheckAnchorsStep == anchorRet'.seq # anchorRet.seq

C14_AnchorsAllPresent ==
    [][CheckAnchorsStep
         => /\ anchorRet'.ok = (\A a \in anchors : exists[a])
            /\ (anchors = {} => anchorRet'.ok)]_vars

\* C14 witness: CheckAnchors has returned false with one anchor present and
\* the other missing.
C14_Witness ==
    /\ anchorRet.seq = 1
    /\ ~anchorRet.ok
    /\ \E a, b \in anchors : exists[a] /\ ~exists[b]
    /\ \A a \in anchors : anchorState[a] = IF exists[a] THEN "up" ELSE "down"

\* C15: a call of CheckAnchors logs an anchor exactly when what it observes
\* differs from the value the previous call recorded for it, so not on the
\* first observation and not while the value stays; after the call the
\* recorded value of every configured anchor is the one just observed.
Observed(a) == IF exists[a] THEN "up" ELSE "down"

C15_AnchorLogOnTransition ==
    [][CheckAnchorsStep
         => /\ \A a \in anchors :
                  /\ (\E e \in anchorRet'.log : e[1] = a)
                        <=> (anchorState[a] # "untracked"
                               /\ anchorState[a] # Observed(a))
                  /\ anchorState'[a] = Observed(a)
            /\ \A e \in anchorRet'.log :
                  /\ e[1] \in anchors
                  /\ e[2] = IF exists[e[1]] THEN "Anchor Available"
                                             ELSE "Anchor Unavailable"
            /\ \A a \in Anchors \ anchors : anchorState'[a] = anchorState[a]]_vars

\* C15 witness: a call has logged the transition of one anchor and nothing
\* for the other, whose value stayed.
C15_Witness ==
    /\ Cardinality(anchors) = 2
    /\ Cardinality(anchorRet.log) = 1
    /\ \A a \in anchors : anchorState[a] = Observed(a)
    /\ \E e \in anchorRet.log : e[2] = "Anchor Unavailable"

\* C16: in an iteration of the scan loop whose CheckAnchors returned false,
\* neither CheckAvailability nor Process is called: the loop sleeps
\* noScansDelay and starts the next iteration with CheckAnchors again.
C16_AnchorGate ==
    /\ [](lpc \in {"gate", "process"} => anchorRet.ok)
    /\ [](pc[Looper] # "idle" => lpc = "process")
    /\ [][/\ (lpc = "top" /\ lpc' # "top" /\ targets # {} /\ ~anchorRet'.ok)
                => /\ lpc' = "sleepNoScans"
                   /\ UNCHANGED <<coreVars, targetsAvailable, lerr, retried>>
          /\ (lpc = "sleepNoScans" /\ lpc' # lpc) => lpc' = "top"
          /\ (lpc = "top" /\ lpc' # "top" /\ targets # {})
                => anchorRet'.seq # anchorRet.seq
          /\ (lerr' # lerr \/ targetsAvailable' # targetsAvailable)
                => lpc \in {"gate", "process"}]_vars

\* C16 witness: the loop sleeps after CheckAnchors found the anchor missing,
\* with rows waiting and no target checked yet.
C16_Witness ==
    /\ lpc = "sleepNoScans"
    /\ ~anchorRet.ok
    /\ anchorRet.seq = 1
    /\ ~targetsAvailable
    /\ store # {}
    /\ lerr = "nil"

\* C17: Process is called only after CheckAvailability succeeded, with no
\* TargetUnavailable returned by Process since; when Process returns
\* TargetUnavailable retried grows by exactly 1, the store is as it was with
\* its eligible row still there, and the gate closes; retried changes in no
\* other step.
C17_AvailabilityGate ==
    /\ [](pc[Looper] # "idle" => availOk /\ targetsAvailable)
    /\ [](lpc = "process" => availOk)
    /\ [][/\ (pc[Looper] = "return" /\ pc'[Looper] = "idle"
                /\ perr[Looper] = "TargetUnavailable")
                => /\ retried' = retried + 1
                   /\ store' = store
                   /\ GetAvailableScan(store', now', minimumAge') # {}
                   /\ ~targetsAvailable'
                   /\ ~availOk'
                   /\ lpc' = "sleepNoScans"
          /\ retried' # retried
                => /\ pc[Looper] = "return"
                   /\ perr[Looper] = "TargetUnavailable"
          /\ (~availOk /\ availOk') => (lpc = "gate" /\ lerr' = "nil")]_vars

\* C17 witness: after Process returned TargetUnavailable the loop is back at
\* the gate, closed, with the row still stored.
C17_Witness ==
    /\ lpc = "gate"
    /\ lerr = "TargetUnavailable"
    /\ retried = 1
    /\ ~targetsAvailable
    /\ store # {}
    /\ processed = 0

\* C18: the loop exits only without targets, on a Fatal error of
\* CheckAvailability, or on an error of Process other than NoScans and
\* TargetUnavailable; a missing anchor, unavailable targets and a
\* TargetUnavailable from Process make it sleep noScansDelay.
C18_ExitsOnlyOnFatal ==
    /\ [][(lpc' = "exit" /\ lpc # "exit")
            => \/ lpc = "top" /\ targets = {}
               \/ lpc = "gate" /\ ~targetsAvailable /\ lerr' = "Fatal"
               \/ /\ lpc = "process"
                  /\ pc[Looper] = "return"
                  /\ perr[Looper] \notin {"nil", "NoScans", "TargetUnavailable"}]_vars
    /\ [][/\ (lpc = "top" /\ targets # {} /\ lpc' # lpc /\ ~anchorRet'.ok)
                => lpc' = "sleepNoScans"
          /\ (lpc = "gate" /\ lerr' \in {"TargetUnavailable", "Error"}
                /\ ~targetsAvailable /\ lpc' # lpc)
                => lpc' = "sleepNoScans"
          /\ (lpc = "process" /\ pc[Looper] = "return" /\ lpc' # lpc
                /\ perr[Looper] \in {"NoScans", "TargetUnavailable"})
                => lpc' = "sleepNoScans"]_vars

\* C18 witness: Process has returned TargetUnavailable for the second time
\* and the loop sleeps.
C18_Witness ==
    /\ lpc = "sleepNoScans"
    /\ lerr = "TargetUnavailable"
    /\ retried = 2

\* the paths with an entry in the queue's map
Pending == {p \in QPaths : qScans[p] # NoTime}

\* C19: events for one folder that arrive before its entry fires produce
\* one scan notification for the folder: the map never holds two entries
\* for one folder, a call of process emits at most one scan per folder, and
\* the entry of an emitted scan is removed by the call that emits it.
C19_OneNotificationPerFolder ==
    /\ [](\A p1, p2 \in Pending : Clean(p1) = Clean(p2) => p1 = p2)
    /\ [](\A r1, r2 \in ready :
             r1.scan.folder = r2.scan.folder => r1.path = r2.path)
    /\ [][now' # now => \A r \in ready' : qScans'[r.path] = NoTime]_vars

\* C20: a notification is emitted QueueDelay after the latest event for its
\* path, not after the first: an entry is pending only while less than
\* QueueDelay has passed since the latest event, every event without a
\* notification has a pending entry, and an entry fires exactly QueueDelay
\* after the latest event.
C20_BoundedAfterLastEvent ==
    /\ [](\A p \in Pending :
             /\ lastEvent[p] # NoTime
             /\ firstEvent[p] # NoTime
             /\ now - lastEvent[p] < QueueDelay)
    /\ [](\A p \in QPaths : firstEvent[p] # NoTime => p \in Pending)
    /\ [][\A p \in QPaths :
             (qScans[p] # NoTime /\ qScans'[p] = NoTime)
                => (now' - lastEvent[p] = QueueDelay
                    /\ \E r \in ready' : r.path = p)]_vars

\* C20 witness: a scan is emitted for a path whose first event is older
\* than QueueDelay, later events having postponed it.
C20_Witness ==
    \E r \in ready : r.waited > QueueDelay

\* C20 as stated: no event waits longer than QueueDelay for its
\* notification, whatever events follow it.
C20_BoundedDelay ==
    /\ \A p \in QPaths : firstEvent[p] # NoTime => now - firstEvent[p] < QueueDelay
    /\ \A r \in ready : r.waited <= QueueDelay

\* C21: once inputs is closed the worker returns, whatever ticks it takes
\* in between; after it has returned it neither receives nor ticks.
C21_WorkerReturnsOnClose ==
    /\ (inputs = "closed") ~> (qpc = "returned")
    /\ [][qpc = "returned" =>
            /\ qpc' = "returned"
            /\ UNCHANGED <<qScans, ready, firstEvent, lastEvent, now>>]_vars
    /\ [](qpc = "returned" => inputs = "closed")

\* C21 witness: the worker has returned after it took a tick that followed
\* the close, with an entry left in its map.
C21_Witness ==
    /\ qpc = "returned"
    /\ now > closedAt
    /\ Pending # {}

\* the run of drive d's job returns in this step
Returns(d) == jpc[d] \in {"wait", "warned"} /\ jpc'[d] = "idle"

\* C22: a job is removed from the scheduler by the non-fatal failed run that
\* makes maxSyncRetries of them in a row, and by no earlier one; a
\* successful run sets attempts to 0 and empties errors, so that the count
\* starts again.
C22_StopsAfterMaxConsecutiveFailures ==
    /\ [](\A d \in Drives : registered[d] => consec[d] < maxSyncRetries)
    /\ [][\A d \in Drives : Returns(d) =>
             /\ done[d] = "nil" =>
                    (attempts'[d] = 0 /\ errors'[d] = 0 /\ registered'[d])
             /\ done[d] \notin {"nil", "Fatal"} =>
                    /\ errors'[d] = errors[d] + 1
                    /\ registered'[d] = (consec'[d] < maxSyncRetries)]_vars

\* C22 witness: the run that just returned a non-fatal error was the last
\* of maxSyncRetries failures in a row and the job is removed.
C22_Witness ==
    \E d \in Drives :
        /\ ~registered[d]
        /\ consec[d] = maxSyncRetries
        /\ lastJob.op = "return" /\ lastJob.drive = d
        /\ lastJob.err \in BernardErrors

\* C23: a run whose error is Fatal removes the job on that run, whatever
\* attempts is; a failure of the processor callback makes the sync function
\* return Fatal.
C23_FatalStopsAtOnce ==
    /\ [](\A d \in Drives : cbFailed[d] => done[d] = "Fatal")
    /\ [][\A d \in Drives :
             (Returns(d) /\ done[d] = "Fatal") => ~registered'[d]]_vars

\* C23 witness: the first run of a job returned Fatal and the job is
\* removed.
C23_Witness ==
    \E d \in Drives :
        /\ ~registered[d]
        /\ lastJob.op = "return" /\ lastJob.drive = d
        /\ lastJob.err = "Fatal"
        /\ attempts[d] = 1

\* the drives whose job function holds a slot of the semaphore
Holding == {d \in Drives : jpc[d] \in {"wait", "warned"}}

\* C24: at most syncLimit syncs hold the account's semaphore; the weight
\* taken is that of the syncs in progress, each run giving its slot back
\* once when it returns, warned by the watchdog or not.
C24_SemaphoreBoundsSyncs ==
    /\ [](semHeld <= syncLimit /\ semHeld = Cardinality(Holding))
    /\ [][\A d \in Drives : Returns(d) => semHeld' = semHeld - 1]_vars

\* C24 witness: every slot is taken, one holder has been warned by the
\* watchdog and another drive's run waits for a slot.
C24_Witness ==
    /\ semHeld = syncLimit
    /\ \E d \in Drives : jpc[d] = "warned"
    /\ \E d \in Drives : jpc[d] = "acquire"

\* C25: the job function returns only once the sync function has completed,
\* and returns its result; the watchdog's warning leaves the run waiting
\* for the same completion, its slot of the semaphore held.
C25_WatchdogOnlyWarns ==
    /\ [][\A d \in Drives : Returns(d) =>
             /\ done[d] # "none"
             /\ lastJob'.err = done[d]]_vars
    /\ [][\A d \in Drives : (jpc[d] = "wait" /\ done[d] = "none") =>
             /\ jpc'[d] \in {"wait", "warned"}
             /\ semHeld' >= semHeld \/ \E e \in Drives \ {d} : Returns(e)
             /\ registered'[d] = registered[d]]_vars

\* C25 witness: a run returned the sync's success after the watchdog had
\* warned.
C25_Witness ==
    /\ lastJob.op = "return"
    /\ lastJob.warned
    /\ lastJob.err = "nil"

\* C26: a job has at most one run in progress; a tick that finds the
\* previous run still executing starts nothing and leaves attempts alone,
\* and a run starts only from a tick that finds the job idle.
C26_SkipIfStillRunning ==
    /\ [](\A d \in Drives :
             /\ instances[d] <= 1
             /\ instances[d] = IF jpc[d] = "idle" THEN 0 ELSE 1)
    /\ [][\A d \in Drives :
             /\ (lastJob'.op = "skip" /\ lastJob'.drive = d) =>
                    /\ jpc[d] # "idle"
                    /\ jpc'[d] = jpc[d]
                    /\ attempts'[d] = attempts[d]
                    /\ instances'[d] = instances[d]
             /\ attempts'[d] > attempts[d] => jpc[d] = "idle"]_vars

\* C26 witness: a tick was skipped while the first run of the job is still
\* executing, and attempts is still 1.
C26_Witness ==
    \E d \in Drives :
        /\ lastJob.op = "skip" /\ lastJob.drive = d
        /\ jpc[d] \in {"wait", "warned"}
        /\ attempts[d] = 1

\* C27: the outcome of a call of the Plex API client is success for a 2xx
\* status, Fatal for 401, TargetUnavailable for 404 and for every status from
\* 500 to 599, Fatal for every other status from 400 to 499, and
\* TargetUnavailable when the request failed in transport or timed out.
C27_StatusMapping ==
    doRet # "none" =>
        /\ plexRes.err => doRet = "TargetUnavailable"
        /\ ~plexRes.err =>
            LET s == plexRes.StatusCode IN
            /\ (s >= 200 /\ s < 300) => doRet = "nil"
            /\ s = 401 => doRet = "Fatal"
            /\ (s = 404 \/ (s >= 500 /\ s < 600)) => doRet = "TargetUnavailable"
            /\ (s >= 400 /\ s < 500 /\ s # 401 /\ s # 404) => doRet = "Fatal"

\* C28: the scans a webhook handler passes to the processor callback for
\* one request hold no two entries with the same rewritten folder and
\* relative_path, and for a Rename event no two entries with the same
\* rewritten folder.
C28_NoDuplicateScans ==
    callbackArgs.called =>
        LET scans == callbackArgs.scans IN
        \A i, j \in DOMAIN scans :
            i # j =>
                /\ ~(/\ scans[i].folder = scans[j].folder
                     /\ scans[i].relative_path = scans[j].relative_path)
                /\ event.Type = "Rename" => scans[i].folder # scans[j].folder

\* the schema changes in effect, as a set
AppliedSet == {migDb.applied[i] : i \in DOMAIN migDb.applied}

\* C29: for each component every migration version takes effect at most
\* once and in ascending order of version, and always together with its row
\* of schema_migration; a migration that fails changes nothing in the
\* database and ends the call of Migrate; and a migration takes effect only
\* for a version of the component's files that has no row yet.
C29_MigrationsOnceInOrder ==
    /\ [](/\ \A i, j \in DOMAIN migDb.applied :
                i < j =>
                    /\ migDb.applied[i] # migDb.applied[j]
                    /\ migDb.applied[i][1] = migDb.applied[j][1]
                          => migDb.applied[i][2] < migDb.applied[j][2]
          /\ AppliedSet = migDb.rows)
    /\ [][/\ (mig.pc = "loop" /\ mig'.err # "nil")
                => (migDb' = migDb /\ mig'.pc = "returned")
          /\ migDb' # migDb =>
                \E v \in Versions :
                    LET cv == <<mig.component, v>> IN
                    /\ mig.pc = "loop"
                    /\ \E k \in DOMAIN migFiles[mig.component] :
                          migFiles[mig.component][k] = v
                    /\ cv \notin migDb.rows
                    /\ migDb'.applied = Append(migDb.applied, cv)
                    /\ migDb'.rows = migDb.rows \cup {cv}]_vars

\* C29 witness: a later call of Migrate, which found versions recorded by an
\* earlier one that had stopped at a failure, has applied a further version
C29_Witness ==
    /\ mig.pc = "loop"
    /\ mig.versions # {}
    /\ \E i \in DOMAIN migDb.applied :
          /\ migDb.applied[i][1] = mig.component
          /\ migDb.applied[i][2] \notin mig.versions

\* C30: every call of getFolderPath returns, whatever the folder map and
\* the datastore hold, parent links that form a cycle included.
C30_WalkTerminates == (walk.pc = "loop") ~> (walk.pc = "returned")

\* how often an item with id k is in the list s
Occurs(s, k) == Cardinality({j \in DOMAIN s : s[j].id = k})

\* C31: after reclassifyTrashed every entry left in Changed has the same
\* trashed flag in its old and new state; every entry handed in is in
\* exactly one place of exactly one list: in Added if it went from trashed
\* to not trashed, in Removed if it went from not trashed to trashed, in
\* Changed otherwise; and the three lists together are as long as before.
C31_ReclassifyMovesFlipped ==
    /\ \A j \in DOMAIN diff.Changed : diff.Changed[j].old = diff.Changed[j].new
    /\ \A k \in DOMAIN diffIn.Changed :
          LET c == diffIn.Changed[k]
              inC == Occurs(diff.Changed, k)
              inA == Occurs(diff.Added, k)
              inR == Occurs(diff.Removed, k)
          IN  /\ inC + inA + inR = 1
              /\ (c.old /\ ~c.new) => inA = 1
              /\ (~c.old /\ c.new) => inR = 1
              /\ (c.old = c.new) => inC = 1
    /\ Len(diff.Changed) + Len(diff.Added) + Len(diff.Removed)
          = Len(diffIn.Changed) + Len(diffIn.Added) + Len(diffIn.Removed)

\* C31 witness: two adjacent entries had flipped, one each way, followed by
\* one that had not; each list holds one of them after the call.
C31_Witness ==
    /\ Len(diffIn.Changed) = 3
    /\ diffIn.Changed[1].old /\ ~diffIn.Changed[1].new
    /\ ~diffIn.Changed[2].old /\ diffIn.Changed[2].new
    /\ diffIn.Changed[3].old = diffIn.Changed[3].new
    /\ Len(diff.Changed) = 1 /\ Occurs(diff.Added, 1) = 1
    /\ Occurs(diff.Removed, 2) = 1

\* C32: a full sync emits no scan; when it returns without error fullSync
\* of the drive becomes false, and when it returns an error fullSync stays
\* true; a run is a full sync exactly if fullSync is true when it starts;
\* and after setupDrive fullSync never goes from false to true.
C32_FullSyncClearsFlag ==
    /\ [](lastRun.kind = "full" => lastRun.emitted = 0)
    /\ [][\A d \in Drives :
             /\ (lastRun'.kind = "full" /\ lastRun'.drive = d) =>
                    /\ fullSync[d]
                    /\ fullSync'[d] = (lastRun'.err # "nil")
             /\ (fspc[d] = "idle" /\ fspc'[d] # "idle") =>
                    fspc'[d] = IF fullSync[d] THEN "full" ELSE "partial"
             /\ (setupRes[d] # "new" /\ ~fullSync[d]) => ~fullSync'[d]]_vars

\* C32 witness: a drive that needed a full sync runs a partial sync that
\* emitted scans: its full sync has succeeded.
C32_Witness ==
    \E d \in Drives :
        /\ setupRes[d] = "full"
        /\ ~fullSync[d]
        /\ lastRun.kind = "partial" /\ lastRun.drive = d
        /\ lastRun.emitted > 0

\* C33: all calls of getRateLimiter for one account return one limiter,
\* calls for different accounts return different limiters, and an entry of
\* the map, once made, is neither removed nor replaced.
C33_OneLimiterPerAccount ==
    /\ [](/\ \A a \in Accounts : Cardinality(handedOut[a]) <= 1
          /\ \A a, b \in Accounts :
                a # b => handedOut[a] \cap handedOut[b] = {}
          /\ \A a \in Accounts : handedOut[a] \subseteq {limiters[a]})
    /\ [][\A a \in Accounts :
             limiters[a] # NoLimiter => limiters'[a] = limiters[a]]_vars

\* C33 witness: one limiter has been made and returned for an account,
\* and another call for that account is about to return the same one.
C33_Witness ==
    \E a \in Accounts, g \in Callers :
        /\ allocated = 1
        /\ handedOut[a] = {1}
        /\ caller[g].pc = "return" /\ caller[g].account = a
        /\ caller[g].limiter = 1

\* the worker fired a coalescing entry for the last event
Fired == sent # NoPath

Emitted == {r.path : r \in ready}

\* the paths of the map that name folder f
Spellings(f) == {p \in QPaths : Clean(p) = f}

\* C35: an event sets the firing time of its folder's entry to the time of
\* the event plus the delay; a tick emits a folder no earlier than the delay
\* after the latest event for the folder, it emits and removes exactly the
\* entries whose firing time is not in the future, and it leaves every
\* other entry in the map as it was.
C35_EmitsOnlyDueEntries ==
    [][\A p \in QPaths :
          /\ (lastEvent'[p] # NoTime /\ qpc' = qpc /\ now' = now
                 /\ qScans'[p] # qScans[p])
                => qScans'[p] = lastEvent'[p] + QueueDelay
          /\ now' # now =>
                /\ p \in Emitted' <=>
                      (qScans[p] # NoTime /\ qScans[p] <= now')
                /\ p \in Emitted' =>
                      /\ qScans'[p] = NoTime
                      /\ \A s \in Spellings(Clean(p)) :
                            lastEvent[s] # NoTime =>
                                now' >= lastEvent[s] + QueueDelay
                /\ p \notin Emitted' => qScans'[p] = qScans[p]]_vars

\* C36: the triple Snapshot returned is what the three counters held
\* together at one instant between the call and the return.
C36_SnapshotIsOneInstant ==
    snapPc = "returned" => snap \in instants

\* C37: the rows in the store and the scans counted as processed are
\* together never more than the scans counted as received.
C37_RowsPlusProcessedAtMostReceived ==
    Cardinality(store) + processed <= received

\* C37 witness: a Process has counted its scan while another row waits in
\* the store and an Add is between counting its scans and storing them.
C37_Witness ==
    /\ processed > 0
    /\ store # {}
    /\ \E a \in Adders : apc[a] \notin {"idle", "done"}

\* every configured anchor exists
AnchorsExist == \A a \in anchors : exists[a]

\* the last availability check found every target available and no dispatch
\* has found one unavailable since, and no dispatch is failing
TargetsAvailableNow == availOk /\ gerr[Looper] = "nil"

LastFailed == scan[Looper]

\* row r is eligible and ranks strictly before every other eligible row
UniqueTop(r) ==
    /\ r \in store
    /\ r.time < Cutoff(now, minimumAge)
    /\ \A o \in store \ {r} :
          o.time < Cutoff(now, minimumAge) =>
              \/ r.priority > o.priority
              \/ r.priority = o.priority /\ r.time < o.time

\* C39: when the loop's next call of Process fetches after a call whose
\* dispatch failed on a target error, the row of that call is still in the
\* store as it was, and if it is the unique top-ranked eligible row the call
\* selects it again and no other: it never finds no scan, and it selects
\* nothing only if the query itself fails.
C39_FailedRowSelectedAgain ==
    [][(/\ pc[Looper] = "fetch"
        /\ pc'[Looper] # "fetch"
        /\ LastFailed # NoScan)
          => /\ LastFailed \in store
             /\ UniqueTop(LastFailed) =>
                   \/ /\ pc'[Looper] = "dispatch"
                      /\ scan'[Looper] = LastFailed
                   \/ /\ pc'[Looper] = "return"
                      /\ perr'[Looper] = "Fatal"]_vars

\* C39 witness: the loop's call of Process is about to fetch after a call
\* whose dispatch failed; the row that failed is the unique top-ranked
\* eligible row and another row, eligible as well, waits.
C39_Witness ==
    /\ pc[Looper] = "fetch"
    /\ retried > 0
    /\ LastFailed # NoScan
    /\ UniqueTop(LastFailed)
    /\ \E o \in store \ {LastFailed} : o.time < Cutoff(now, minimumAge)

\* the ready scans whose callback returned an error
Failed == {r \in ready : r.log = "Scan Enqueue Failed"}

\* C40: a call of process leaves no entry for a folder it emitted, also
\* when the callback returned an error, which is logged and nothing else;
\* an entry for the folder of a failed notification is in the map only
\* after a new event for it, and only a path with an entry is emitted.
C40_FailedNotificationDropped ==
    /\ [][now' # now =>
            /\ \A r \in Failed' :
                  \A s \in Spellings(r.scan.folder) : qScans'[s] = NoTime
            /\ \A r \in ready' : /\ qScans[r.path] # NoTime
                                  /\ lastEvent[r.path] # NoTime
                                  /\ lastEvent'[r.path] = NoTime]_vars
    /\ [][\A p \in QPaths :
            (qScans[p] = NoTime /\ qScans'[p] # NoTime)
               => lastEvent'[p] = now /\ now' = now /\ lastEvent[p] = NoTime]_vars

====
